---- MODULE Spec2Model ----
(***************************************************************************)
(* Version generator: the Android version-code counter                     *)
(* (src/src/android-version.ts) and the iOS build-number counter           *)
(* (src/src/ios-version.ts).                                               *)
(*                                                                         *)
(* Strings whose characters the code inspects (version codes, release      *)
(* names, build numbers, commit hashes) are sequences of one-character     *)
(* strings; strings the code only compares or passes on are TLA+ strings.  *)
(* Under Spec one behaviour is one call of getIosBuildNumberInfo followed   *)
(* by one call of getAndroidVersionCode, each action being the code        *)
(* between two awaits.                                                     *)
(***************************************************************************)
EXTENDS Integers, Sequences, FiniteSets

VARIABLES
    tracks,              \* Play Store: the package's tracks, in the order edits.tracks.list returns them
    options,             \* AndroidVersionOptions of the call
    pc,                  \* position of the Android call
    highestVersionCode,  \* local of getPlayStoreVersionInfo
    majorVersion,        \* local of getPlayStoreVersionInfo
    editId,              \* local editId of the open try block (0: none)
    pending,             \* exception in flight while a finally block runs
    trackError,          \* what catch (trackError) caught
    tracksError,         \* what catch (tracksError) caught
    calls,               \* requests issued to the Android Publisher API, in order
    credentialsParsed,   \* the service account key was decoded
    warnings,            \* console.warn lines written
    currentVersionInfo,  \* what getPlayStoreVersionInfo returned (<<>>: undefined)
    result,              \* settlement of the getAndroidVersionCode promise
    builds,              \* App Store Connect: the response of the builds query
    iosOptions,          \* IosVersionOptions of the call
    iosPc,               \* position of the iOS call
    token,               \* local token of getAppStoreVersionInfo
    iosCalls,            \* executor methods invoked, in order
    iosError,            \* the error the catch blocks of the iOS call caught
    iosResult,           \* settlement of the getIosBuildNumberInfo promise
    hashes,              \* the commit hashes handed to encodeCommitHash
    encoded,             \* what the calls of encodeCommitHash returned, in order
    env,                 \* EnvVars of the generatePackageVersion call
    git,                 \* what the local git commands print
    github,              \* what the GitHub API answers
    android,             \* options.android of the call (<<>>: undefined)
    ios,                 \* options.ios of the call (<<>>: undefined)
    pkgPc,               \* position of the generatePackageVersion call
    base,                \* locals tag, major, minor, patch, branchName, commitHash, version, appReleaseVersion
    androidVersionCode,  \* local androidVersionCode (<<>>: undefined)
    execCalls,           \* executor methods invoked by index.ts, in order
    packageVersion,      \* settlement of the generatePackageVersion promise
    branches,            \* the branch name handed to cleanBranchName
    cleaned,             \* what cleanBranchName returned for it, and for what it returned
    candidate,           \* the string handed to isBase64 and parseJSONValue
    jsonExpected,        \* the expectJson argument of isBase64
    isBase64Result,      \* what isBase64 returned (<<>>: not called)
    parsedValue,         \* what parseJSONValue returned or threw
    releaseList,         \* the releases handed to processReleases
    passedIn,            \* currentHighestVersionCode and currentMajorVersion handed to it
    processed,           \* what processReleases returned (<<>>: not called)
    outputFilePath,      \* outputFilePath of the generateAndWriteVersion call (<<>>: undefined)
    fsCalls,             \* mkdirSync and writeFile calls of the executor, in order
    written              \* settlement of the generateAndWriteVersion promise

androidVars == <<tracks, options, pc, highestVersionCode, majorVersion, editId, pending,
                 trackError, tracksError, calls, credentialsParsed, warnings,
                 currentVersionInfo, result>>
iosVars == <<builds, iosOptions, iosPc, token, iosCalls, iosError, iosResult>>
hashVars == <<hashes, encoded>>
branchVars == <<branches, cleaned>>
base64Vars == <<candidate, jsonExpected, isBase64Result, parsedValue>>
releaseVars == <<releaseList, passedIn, processed>>
functionVars == <<hashVars, branchVars, base64Vars, releaseVars>>
writeVars == <<outputFilePath, fsCalls, written>>
packageVars == <<env, git, github, android, ios, pkgPc, base, androidVersionCode, execCalls,
                 packageVersion>>
vars == <<tracks, options, pc, highestVersionCode, majorVersion, editId, pending,
          trackError, tracksError, calls, credentialsParsed, warnings,
          currentVersionInfo, result, builds, iosOptions, iosPc, token, iosCalls, iosError,
          iosResult, hashes, encoded, env, git, github, android, ios, pkgPc, base,
          androidVersionCode, execCalls, packageVersion, branches, cleaned, candidate,
          jsonExpected, isBase64Result, parsedValue, releaseList, passedIn, processed,
          outputFilePath, fsCalls, written>>

(***************************************************************************)
(* Bounds                                                                  *)
(***************************************************************************)
\* releases of the package, all tracks together
MaxReleases == 2
\* largest options.currentMajorVersion tried
MaxMajor == 2
\* largest options.majorVersionIncrement tried
MaxIncrement == 2
\* build records in one App Store Connect response
MaxBuilds == 3
\* characters of a commit hash after its first 8
MaxTail == 2
\* tags of the repository
MaxTags == 2
MaxBranchTail == 2

\* the longest group of base64 characters between inserted whitespace
MaxChunk == 2

(***************************************************************************)
(* JavaScript string and number helpers                                    *)
(***************************************************************************)
Digits == <<"0", "1", "2", "3", "4", "5", "6", "7", "8", "9">>

IsDigit(c) == \E i \in 1..10 : Digits[i] = c

DigitValue(c) == (CHOOSE i \in 1..10 : Digits[i] = c) - 1

IsSpace(c) == c \in {" ", "\n", "\t", "\r"}

RECURSIVE DigitPrefix(_)
\* the longest prefix of s made of decimal digits
DigitPrefix(s) ==
    IF s = <<>> \/ ~IsDigit(Head(s)) THEN <<>>
    ELSE <<Head(s)>> \o DigitPrefix(Tail(s))

RECURSIVE DecimalValue(_)
\* the number a sequence of decimal digits denotes
DecimalValue(ds) ==
    IF ds = <<>> THEN 0
    ELSE 10 * DecimalValue(SubSeq(ds, 1, Len(ds) - 1)) + DigitValue(ds[Len(ds)])

RECURSIVE TrimStart(_)
TrimStart(s) == IF s # <<>> /\ IsSpace(Head(s)) THEN TrimStart(Tail(s)) ELSE s

\* parseInt(s, 10): leading white space, an optional sign, then the longest
\* run of digits; NaN when there is no digit. nan is TRUE for NaN.
ParseInt(s) ==
    LET t == TrimStart(s)
        neg == t # <<>> /\ Head(t) = "-"
        u == IF t # <<>> /\ Head(t) \in {"-", "+"} THEN Tail(t) ELSE t
        ds == DigitPrefix(u)
    IN  IF ds = <<>> THEN [nan |-> TRUE, val |-> 0]
        ELSE [nan |-> FALSE, val |-> IF neg THEN 0 - DecimalValue(ds) ELSE DecimalValue(ds)]

RECURSIVE ToString(_)
\* Number.prototype.toString() of a non-negative integer
ToString(n) ==
    IF n < 10 THEN <<Digits[n + 1]>>
    ELSE ToString(n \div 10) \o <<Digits[(n % 10) + 1]>>

\* release.name.match(/^(\d+)\./): the captured digits, <<>> when there is no match
VersionMatch(name) ==
    LET ds == DigitPrefix(name)
    IN  IF ds # <<>> /\ Len(name) > Len(ds) /\ name[Len(ds) + 1] = "." THEN ds ELSE <<>>

Max(S) == CHOOSE x \in S : \A y \in S : y <= x

(***************************************************************************)
(* android-version.ts                                                      *)
(***************************************************************************)
DEFAULT_MAJOR_VERSION_INCREMENT == 10

\* processVersionCode without the comparison against the running maximum
processVersionCode_LastWins(versionCodeStr, name, acc) ==
    LET versionCode == ParseInt(versionCodeStr)
    IN  IF ~versionCode.nan
        THEN [highestVersionCode |-> versionCode.val,
              majorVersion |->
                  IF name # <<>> /\ VersionMatch(name) # <<>>
                  THEN ParseInt(VersionMatch(name)).val
                  ELSE acc.majorVersion]
        ELSE acc

\* a new maximum under a name without a major version forgets the recorded one
processVersionCode_ForgetsMajor(versionCodeStr, name, acc) ==
    LET versionCode == ParseInt(versionCodeStr)
    IN  IF ~versionCode.nan /\ versionCode.val > acc.highestVersionCode
        THEN [highestVersionCode |-> versionCode.val,
              majorVersion |->
                  IF name # <<>> /\ VersionMatch(name) # <<>>
                  THEN ParseInt(VersionMatch(name)).val
                  ELSE 0]
        ELSE acc

\* the body of the inner loop of processReleases for one version code string
processVersionCode(versionCodeStr, name, acc) ==
    LET versionCode == ParseInt(versionCodeStr)
    IN  IF ~versionCode.nan /\ versionCode.val > acc.highestVersionCode
        THEN [highestVersionCode |-> versionCode.val,
              majorVersion |->
                  IF name # <<>> /\ VersionMatch(name) # <<>>
                  THEN ParseInt(VersionMatch(name)).val
                  ELSE acc.majorVersion]
        ELSE acc

RECURSIVE processVersionCodes(_, _, _)
\* for (const versionCodeStr of release.versionCodes)
processVersionCodes(versionCodes, name, acc) ==
    IF versionCodes = <<>> THEN acc
    ELSE processVersionCodes(Tail(versionCodes), name,
                             processVersionCode(Head(versionCodes), name, acc))

RECURSIVE processReleasesFrom(_, _)
\* for (const release of releases)
processReleasesFrom(releases, acc) ==
    IF releases = <<>> THEN acc
    ELSE processReleasesFrom(Tail(releases),
                             processVersionCodes(Head(releases).versionCodes,
                                                 Head(releases).name, acc))

processReleases(releases, currentHighestVersionCode, currentMajorVersion) ==
    processReleasesFrom(releases, [highestVersionCode |-> currentHighestVersionCode,
                                   majorVersion |-> currentMajorVersion])

RECURSIVE processAllTracks(_, _)
\* for (const trackInfo of allTracks.data.tracks)
processAllTracks(ts, acc) ==
    IF ts = <<>> THEN acc
    ELSE processAllTracks(Tail(ts),
                          processReleases(Head(ts).releases, acc.highestVersionCode,
                                          acc.majorVersion))


\* nextVersionCode returning the published code itself when the major version is unchanged
nextVersionCode_NoIncrement(info, opts) ==
    IF opts.currentMajorVersion > info.majorVersion
    THEN info.versionCode +
         (IF opts.majorVersionIncrement # <<>> /\ opts.majorVersionIncrement[1] # 0
          THEN opts.majorVersionIncrement[1]
          ELSE DEFAULT_MAJOR_VERSION_INCREMENT)
    ELSE info.versionCode

\* nextVersionCode comparing the major versions with >= instead of >
nextVersionCode_GreaterOrEqual(info, opts) ==
    IF opts.currentMajorVersion >= info.majorVersion
    THEN info.versionCode +
         (IF opts.majorVersionIncrement # <<>> /\ opts.majorVersionIncrement[1] # 0
          THEN opts.majorVersionIncrement[1]
          ELSE DEFAULT_MAJOR_VERSION_INCREMENT)
    ELSE info.versionCode + 1

\* options.currentMajorVersion > currentMajorVersion ? currentVersionCode + (increment || default)
\*                                                    : currentVersionCode + 1
nextVersionCode(info, opts) ==
    IF opts.currentMajorVersion > info.majorVersion
    THEN info.versionCode +
         (IF opts.majorVersionIncrement # <<>> /\ opts.majorVersionIncrement[1] # 0
          THEN opts.majorVersionIncrement[1]
          ELSE DEFAULT_MAJOR_VERSION_INCREMENT)
    ELSE info.versionCode + 1

\* the tail of getPlayStoreVersionInfo: undefined (<<>>) when nothing was found
versionInfoOf(highest, major) ==
    IF highest = 0 THEN <<>>
    ELSE <<[versionCode |-> highest, majorVersion |-> major]>>

None == "none"
Value(n) == [kind |-> "value", value |-> n, message |-> <<>>]
Rejected(parts) == [kind |-> "error", value |-> 0, message |-> parts]
Unsettled == [kind |-> "pending", value |-> 0, message |-> <<>>]

AndroidErrorPrefix == "Error getting Android versionCode from Google Play API: "
PlayApiErrorPrefix == "Error calling Google Play API: "
MissingAndroidOptions == "Missing required Android options: packageName and serviceAccountKey"
InvalidKeyError == "Service account key is neither valid JSON nor valid base64-encoded JSON"
CreateEditError == "Failed to create edit"
InsertFailed == "edits.insert: socket hang up"
GetFailed == "edits.tracks.get: socket hang up"
TrackNotFound == "edits.tracks.get: track not found"
ListFailed == "edits.tracks.list: invalid_grant"
DeleteFailed == "edits.delete: socket hang up"

\* the service account keys tried: JSON text, base64 of JSON text, neither, missing
JsonKey == "{}"
Base64Key == "e30="
GarbageKey == "not-a-key"
\* JSON.parse(serviceAccountKey) succeeds, or JSON.parse of its base64 decoding does
credentialsParse(serviceAccountKey) == serviceAccountKey \in {JsonKey, Base64Key}

\* the delete placed after the read instead of in a finally block
finallyRuns_OnlyAfterSuccess(readThrew) == ~readThrew

\* a try block without its finally
finallyRuns_Never(readThrew) == FALSE

\* try { read } finally { delete }: the finally block runs whether or not the read threw
finallyRuns(readThrew) == TRUE

\* the delete awaited in the finally block without its own try/catch
leavesFinally_DeleteErrorEscapes(inFlight, deleteOutcome) ==
    IF deleteOutcome # None THEN deleteOutcome ELSE inFlight

\* what leaves the finally block: the delete's own error is caught and logged
\* inside it, so the exception in flight (if any) is the read's
leavesFinally(inFlight, deleteOutcome) == inFlight

\* the all-tracks block entered unconditionally
fallsBackToAllTracks_Always(highest) == TRUE

\* if (highestVersionCode === 0) after the track-specific block
fallsBackToAllTracks(highest) == highest = 0

\* the enabled check reading the configuration instead of the flag
androidEnabled_WhenConfigured(opts) == opts.enabled \/ opts.packageName # ""

\* if (!options.enabled) return 0
androidEnabled(opts) == opts.enabled

\* indexes of the requests of one kind
CallsOf(op) == {i \in 1..Len(calls) : calls[i].op = op}
NewEditId == Cardinality({i \in CallsOf("insert") : calls[i].outcome = "ok"}) + 1
Call(op, id, outcome) == [op |-> op, editId |-> id, outcome |-> outcome]

TrackNamed(name) == {i \in 1..Len(tracks) : tracks[i].track = name}

\* getPlayStoreVersionInfo returns and getAndroidVersionCode resumes after its await
Finish(highest, major) ==
    /\ currentVersionInfo' = versionInfoOf(highest, major)
    /\ result' = IF versionInfoOf(highest, major) = <<>> THEN Value(1)
                 ELSE Value(nextVersionCode(versionInfoOf(highest, major)[1], options))
    /\ pc' = "done"

\* the code after the track-specific block, up to the next await
AfterTrackBlock(highest, major) ==
    IF fallsBackToAllTracks(highest)
    THEN /\ pc' = "allInsert"
         /\ UNCHANGED <<currentVersionInfo, result>>
    ELSE Finish(highest, major)

\* getAndroidVersionCode up to the first await of getPlayStoreVersionInfo
GetAndroidVersionCode ==
    /\ pc = "start"
    /\ iosPc \in {"idle", "done"}
    /\ UNCHANGED <<tracks, options, highestVersionCode, majorVersion, editId, pending,
                   trackError, tracksError, calls, warnings, currentVersionInfo>>
    /\ UNCHANGED <<iosVars, functionVars, writeVars, packageVars>>
    /\ IF ~androidEnabled(options)
       THEN /\ result' = Value(0)
            /\ pc' = "done"
            /\ UNCHANGED credentialsParsed
       ELSE IF options.packageName = "" \/ options.serviceAccountKey = ""
       THEN /\ result' = Rejected(<<MissingAndroidOptions>>)
            /\ pc' = "done"
            /\ UNCHANGED credentialsParsed
       ELSE /\ credentialsParsed' = TRUE
            /\ IF ~credentialsParse(options.serviceAccountKey)
               THEN /\ result' = Rejected(<<AndroidErrorPrefix, PlayApiErrorPrefix, InvalidKeyError>>)
                    /\ pc' = "done"
               ELSE /\ result' = result
                    /\ pc' = IF options.track # "" THEN "trackInsert" ELSE "allInsert"

\* await androidPublisher.edits.insert (track-specific block)
TrackInsert ==
    /\ pc = "trackInsert"
    /\ \E outcome \in {"ok", "noid", "error"} :
        /\ calls' = Append(calls, Call("insert", IF outcome = "ok" THEN NewEditId ELSE 0, outcome))
        /\ IF outcome = "ok"
           THEN /\ editId' = NewEditId
                /\ pc' = "trackGet"
                /\ UNCHANGED <<trackError, currentVersionInfo, result>>
           ELSE /\ trackError' = IF outcome = "noid" THEN CreateEditError ELSE InsertFailed
                /\ editId' = editId
                /\ AfterTrackBlock(highestVersionCode, majorVersion)
    /\ UNCHANGED <<tracks, options, highestVersionCode, majorVersion, pending, tracksError,
                   credentialsParsed, warnings>>
    /\ UNCHANGED <<iosVars, functionVars, writeVars, packageVars>>

\* await androidPublisher.edits.tracks.get
TrackGet ==
    /\ pc = "trackGet"
    /\ \E outcome \in (IF TrackNamed(options.track) = {} THEN {"notfound"} ELSE {"ok"}) \cup {"error"} :
        LET threw == outcome # "ok"
            cause == IF outcome = "error" THEN GetFailed ELSE TrackNotFound
            releases == IF threw THEN <<>>
                        ELSE tracks[CHOOSE i \in TrackNamed(options.track) : TRUE].releases
            found == IF releases # <<>>
                     THEN processReleases(releases, highestVersionCode, majorVersion)
                     ELSE [highestVersionCode |-> highestVersionCode, majorVersion |-> majorVersion]
        IN  /\ calls' = Append(calls, Call("get", editId, outcome))
            /\ highestVersionCode' = found.highestVersionCode
            /\ majorVersion' = found.majorVersion
            /\ IF finallyRuns(threw)
               THEN /\ pending' = IF threw THEN cause ELSE None
                    /\ pc' = "trackDelete"
                    /\ UNCHANGED <<editId, trackError, currentVersionInfo, result>>
               ELSE /\ pending' = None
                    /\ editId' = 0
                    /\ trackError' = IF threw THEN cause ELSE trackError
                    /\ AfterTrackBlock(found.highestVersionCode, found.majorVersion)
    /\ UNCHANGED <<tracks, options, tracksError, credentialsParsed, warnings>>
    /\ UNCHANGED <<iosVars, functionVars, writeVars, packageVars>>

\* finally { await androidPublisher.edits.delete } and the code up to the next await
TrackDelete ==
    /\ pc = "trackDelete"
    /\ \E outcome \in {"ok", "error"} :
        LET thrown == leavesFinally(pending, IF outcome = "ok" THEN None ELSE DeleteFailed)
        IN  /\ calls' = Append(calls, Call("delete", editId, outcome))
            /\ warnings' = IF outcome = "error" THEN warnings + 1 ELSE warnings
            /\ trackError' = IF thrown # None THEN thrown ELSE trackError
    /\ editId' = 0
    /\ pending' = None
    /\ AfterTrackBlock(highestVersionCode, majorVersion)
    /\ UNCHANGED <<tracks, options, highestVersionCode, majorVersion, tracksError,
                   credentialsParsed>>
    /\ UNCHANGED <<iosVars, functionVars, writeVars, packageVars>>

\* await androidPublisher.edits.insert (all-tracks block)
AllInsert ==
    /\ pc = "allInsert"
    /\ \E outcome \in {"ok", "noid", "error"} :
        /\ calls' = Append(calls, Call("insert", IF outcome = "ok" THEN NewEditId ELSE 0, outcome))
        /\ IF outcome = "ok"
           THEN /\ editId' = NewEditId
                /\ pc' = "allList"
                /\ UNCHANGED <<tracksError, currentVersionInfo, result>>
           ELSE /\ tracksError' = IF outcome = "noid" THEN CreateEditError ELSE InsertFailed
                /\ editId' = editId
                /\ Finish(highestVersionCode, majorVersion)
    /\ UNCHANGED <<tracks, options, highestVersionCode, majorVersion, pending, trackError,
                   credentialsParsed, warnings>>
    /\ UNCHANGED <<iosVars, functionVars, writeVars, packageVars>>

\* await androidPublisher.edits.tracks.list
AllList ==
    /\ pc = "allList"
    /\ \E outcome \in {"ok", "error"} :
        LET threw == outcome # "ok"
            found == IF threw
                     THEN [highestVersionCode |-> highestVersionCode, majorVersion |-> majorVersion]
                     ELSE processAllTracks(tracks, [highestVersionCode |-> highestVersionCode,
                                                    majorVersion |-> majorVersion])
        IN  /\ calls' = Append(calls, Call("list", editId, outcome))
            /\ highestVersionCode' = found.highestVersionCode
            /\ majorVersion' = found.majorVersion
            /\ IF finallyRuns(threw)
               THEN /\ pending' = IF threw THEN ListFailed ELSE None
                    /\ pc' = "allDelete"
                    /\ UNCHANGED <<editId, tracksError, currentVersionInfo, result>>
               ELSE /\ pending' = None
                    /\ editId' = 0
                    /\ tracksError' = IF threw THEN ListFailed ELSE tracksError
                    /\ Finish(found.highestVersionCode, found.majorVersion)
    /\ UNCHANGED <<tracks, options, trackError, credentialsParsed, warnings>>
    /\ UNCHANGED <<iosVars, functionVars, writeVars, packageVars>>

\* finally { await androidPublisher.edits.delete } and the return of both functions
AllDelete ==
    /\ pc = "allDelete"
    /\ \E outcome \in {"ok", "error"} :
        LET thrown == leavesFinally(pending, IF outcome = "ok" THEN None ELSE DeleteFailed)
        IN  /\ calls' = Append(calls, Call("delete", editId, outcome))
            /\ warnings' = IF outcome = "error" THEN warnings + 1 ELSE warnings
            /\ tracksError' = IF thrown # None THEN thrown ELSE tracksError
    /\ editId' = 0
    /\ pending' = None
    /\ Finish(highestVersionCode, majorVersion)
    /\ UNCHANGED <<tracks, options, highestVersionCode, majorVersion, trackError,
                   credentialsParsed>>
    /\ UNCHANGED <<iosVars, functionVars, writeVars, packageVars>>

(***************************************************************************)
(* ios-version.ts                                                          *)
(***************************************************************************)
HexDigits == <<"0", "1", "2", "3", "4", "5", "6", "7", "8", "9", "a", "b", "c", "d", "e", "f">>
UpperHexDigits == <<"0", "1", "2", "3", "4", "5", "6", "7", "8", "9", "A", "B", "C", "D", "E", "F">>

IsHexDigit(c) == \E i \in 1..16 : HexDigits[i] = c \/ UpperHexDigits[i] = c

HexValue(c) == (CHOOSE i \in 1..16 : HexDigits[i] = c \/ UpperHexDigits[i] = c) - 1

RECURSIVE HexPrefix(_)
\* the longest prefix of s made of hexadecimal digits
HexPrefix(s) ==
    IF s = <<>> \/ ~IsHexDigit(Head(s)) THEN <<>>
    ELSE <<Head(s)>> \o HexPrefix(Tail(s))

\* commitHash.substring without the cut at 8 characters
Substring8_Whole(s) == s

\* commitHash.substring(0, 8)
Substring8(s) == IF Len(s) <= 8 THEN s ELSE SubSeq(s, 1, 8)

\* the modulus of encodeCommitHash
MaxInt32 == 2147483647

\* (a + b) % MaxInt32 for a, b < MaxInt32, without leaving the 32-bit range
AddMod(a, b) == IF a >= MaxInt32 - b THEN a - (MaxInt32 - b) ELSE a + b

DoubleMod(a) == AddMod(a, a)

RECURSIVE HexValueMod(_)
\* (the number the hexadecimal digits hs denote) % MaxInt32, digit by digit
HexValueMod(hs) ==
    IF hs = <<>> THEN 0
    ELSE AddMod(DoubleMod(DoubleMod(DoubleMod(DoubleMod(
                    HexValueMod(SubSeq(hs, 1, Len(hs) - 1)))))),
                HexValue(hs[Len(hs)]))

\* parseInt(shortHash, 16) % 2147483647; NaN when shortHash starts with no hex digit
encodeCommitHash(commitHash) ==
    LET hs == HexPrefix(TrimStart(Substring8(commitHash)))
    IN  IF hs = <<>> THEN [nan |-> TRUE, val |-> 0]
        ELSE [nan |-> FALSE, val |-> HexValueMod(hs)]

\* template-literal conversion of a number that may be NaN
NumberToString(n) == IF n.nan THEN <<"N", "a", "N">> ELSE ToString(n.val)

\* composeIosBuildVersion leaving the commit hash out
composeIosBuildVersion_NoHash(buildNumber, commitHash) ==
    [buildNumber |-> buildNumber,
     encodedCommitHash |-> <<>>,
     buildVersion |-> ToString(buildNumber)]

\* commitHash is <<>> when the option is absent
composeIosBuildVersion(buildNumber, commitHash) ==
    IF commitHash # <<>>
    THEN [buildNumber |-> buildNumber,
          encodedCommitHash |-> <<encodeCommitHash(commitHash)>>,
          buildVersion |-> ToString(buildNumber) \o <<".">> \o
                           NumberToString(encodeCommitHash(commitHash))]
    ELSE [buildNumber |-> buildNumber,
          encodedCommitHash |-> <<>>,
          buildVersion |-> ToString(buildNumber)]

\* processBuild without the filter on the release version
processBuild_AnyVersion(build, appReleaseVersion, highestBuildNumber) ==
    IF build.hasAttributes
    THEN LET buildNumber == ParseInt(build.buildNumber)
         IN  IF ~buildNumber.nan /\ buildNumber.val > highestBuildNumber
             THEN buildNumber.val
             ELSE highestBuildNumber
    ELSE highestBuildNumber

\* the loop body of processBuilds for one build record
processBuild(build, appReleaseVersion, highestBuildNumber) ==
    IF build.hasAttributes /\ build.version = appReleaseVersion
    THEN LET buildNumber == ParseInt(build.buildNumber)
         IN  IF ~buildNumber.nan /\ buildNumber.val > highestBuildNumber
             THEN buildNumber.val
             ELSE highestBuildNumber
    ELSE highestBuildNumber

RECURSIVE highestBuildNumberOf(_, _, _)
\* for (const build of builds.data)
highestBuildNumberOf(data, appReleaseVersion, highestBuildNumber) ==
    IF data = <<>> THEN highestBuildNumber
    ELSE highestBuildNumberOf(Tail(data), appReleaseVersion,
                              processBuild(Head(data), appReleaseVersion, highestBuildNumber))

\* <<>> is undefined
processBuilds(response, appReleaseVersion) ==
    IF response.shape # "array" \/ response.data = <<>> THEN <<>>
    ELSE IF highestBuildNumberOf(response.data, appReleaseVersion, 0) = 0 THEN <<>>
    ELSE <<[highestBuildNumber |-> highestBuildNumberOf(response.data, appReleaseVersion, 0)]>>

\* the two returns at the end of getIosBuildNumberInfo
nextBuildNumber(versionInfo) ==
    IF versionInfo = <<>> THEN 1 ELSE versionInfo[1].highestBuildNumber + 1

IosErrorPrefix == "Failed to get iOS build number: "
AppStoreErrorPrefix == "Failed to get App Store version info: "
MissingIosOptions == "iOS build number generation requires apiKeyId, apiIssuerId, apiPrivateKey, bundleId, and appReleaseVersion"
SignFailed == "secretOrPrivateKey must be an asymmetric key when using ES256"
NoAppFound == "No app found with bundle ID: "
RequestFailed == "App Store Connect API request failed: socket hang up"
ParseFailed == "Failed to parse App Store Connect API response: Unexpected token"

NoInfo == [buildNumber |-> 0, encodedCommitHash |-> <<>>, buildVersion |-> <<>>]
IosValue(info) == [kind |-> "value", info |-> info, message |-> <<>>]
IosRejected(parts) == [kind |-> "error", info |-> NoInfo, message |-> parts]
IosUnsettled == [kind |-> "pending", info |-> NoInfo, message |-> <<>>]

\* the option check without appReleaseVersion
iosOptionsMissing_WithoutVersion(o) ==
    \/ o.apiKeyId = "" \/ o.apiIssuerId = ""
    \/ o.apiPrivateKey = "" \/ o.bundleId = ""

\* !options.apiKeyId || !options.apiIssuerId || !options.apiPrivateKey ||
\* !options.bundleId || !options.appReleaseVersion
iosOptionsMissing(o) ==
    \/ o.apiKeyId = "" \/ o.apiIssuerId = ""
    \/ o.apiPrivateKey = "" \/ o.bundleId = ""
    \/ o.appReleaseVersion = <<>>

\* the options the text of an error message names
OptionsNamedIn(message) ==
    IF message = MissingIosOptions
    THEN {"apiKeyId", "apiIssuerId", "apiPrivateKey", "bundleId", "appReleaseVersion"}
    ELSE {}

\* catch (error) of getAppStoreVersionInfo: the message gets its prefix
appStoreCatch(cause) == <<AppStoreErrorPrefix, cause>>

\* a catch block that answers the first build number instead of rethrowing
iosCatch_FirstBuild(parts) ==
    IosValue([buildNumber |-> 1, encodedCommitHash |-> <<>>, buildVersion |-> <<"1">>])

\* catch (error) of getIosBuildNumberInfo: rethrown with the prefix in front
iosCatch(parts) == IosRejected(<<IosErrorPrefix>> \o parts)

\* getIosBuildNumberInfo up to the await of executor.queryApi
GetIosBuildNumberInfo ==
    /\ iosPc = "start"
    /\ UNCHANGED <<androidVars, functionVars, writeVars, packageVars>>
    /\ UNCHANGED <<builds, iosOptions>>
    /\ IF ~iosOptions.enabled
       THEN /\ iosResult' = IosValue([buildNumber |-> 0, encodedCommitHash |-> <<>>,
                                      buildVersion |-> <<"0">>])
            /\ iosPc' = "done"
            /\ UNCHANGED <<token, iosCalls, iosError>>
       ELSE IF iosOptionsMissing(iosOptions)
       THEN /\ iosError' = MissingIosOptions
            /\ iosResult' = iosCatch(<<MissingIosOptions>>)
            /\ iosPc' = "done"
            /\ UNCHANGED <<token, iosCalls>>
       ELSE \E signed \in BOOLEAN :
            LET generateToken == [op |-> "generateToken", keyId |-> iosOptions.apiKeyId,
                                  issuerId |-> iosOptions.apiIssuerId,
                                  bundleId |-> "", appReleaseVersion |-> <<>>]
                queryApi == [op |-> "queryApi", keyId |-> "", issuerId |-> "",
                             bundleId |-> iosOptions.bundleId,
                             appReleaseVersion |-> iosOptions.appReleaseVersion]
            IN  IF signed
                THEN /\ token' = "jwt"
                     /\ iosCalls' = iosCalls \o <<generateToken, queryApi>>
                     /\ iosPc' = "queryApi"
                     /\ UNCHANGED <<iosError, iosResult>>
                ELSE /\ token' = token
                     /\ iosCalls' = Append(iosCalls, generateToken)
                     /\ iosPc' = "done"
                     /\ iosError' = SignFailed
                     /\ iosResult' = iosCatch(appStoreCatch(SignFailed))

\* executor.queryApi settles; processBuilds and composeIosBuildVersion follow
QueryApi ==
    /\ iosPc = "queryApi"
    /\ UNCHANGED <<androidVars, functionVars, writeVars, packageVars>>
    /\ UNCHANGED <<builds, iosOptions, token, iosCalls>>
    /\ iosPc' = "done"
    /\ \E outcome \in {"ok", NoAppFound, RequestFailed, ParseFailed} :
        /\ iosError' = IF outcome = "ok" THEN iosError ELSE outcome
        /\ iosResult' =
              IF outcome = "ok"
              THEN IosValue(composeIosBuildVersion(
                       nextBuildNumber(processBuilds(builds, iosOptions.appReleaseVersion)),
                       iosOptions.commitHash))
              ELSE iosCatch(appStoreCatch(outcome))

\* one more call of encodeCommitHash: the first hash, the second, the first again
EncodeCommitHash ==
    /\ Len(encoded) < 3
    /\ encoded' = Append(encoded,
                         encodeCommitHash(hashes[IF Len(encoded) = 1 THEN 2 ELSE 1]))
    /\ UNCHANGED hashes
    /\ UNCHANGED <<androidVars, iosVars, packageVars>>
    /\ UNCHANGED <<branchVars, base64Vars, releaseVars, writeVars>>

(***************************************************************************)
(* index.ts: pure helpers                                                  *)
(***************************************************************************)
LowerCase == {"a", "b", "c", "d", "e", "f", "g", "h", "i", "j", "k", "l", "m", "n", "o", "p", "q", "r", "s", "t", "u", "v", "w", "x", "y", "z"}
UpperCase == {"A", "B", "C", "D", "E", "F", "G", "H", "I", "J", "K", "L", "M", "N", "O", "P", "Q", "R", "S", "T", "U", "V", "W", "X", "Y", "Z"}

\* [a-zA-Z0-9]
IsAlphanumeric(c) == c \in LowerCase \/ c \in UpperCase \/ IsDigit(c)

RECURSIVE TrimEnd(_)
TrimEnd(s) == IF s # <<>> /\ IsSpace(s[Len(s)]) THEN TrimEnd(SubSeq(s, 1, Len(s) - 1)) ELSE s

\* String.prototype.trim
Trim(s) == TrimEnd(TrimStart(s))

\* String.prototype.startsWith
StartsWith(s, prefix) == Len(s) >= Len(prefix) /\ SubSeq(s, 1, Len(prefix)) = prefix

RECURSIVE Split(_, _)
\* String.prototype.split(separator) for a one-character separator
Split(s, separator) ==
    IF \A i \in 1..Len(s) : s[i] # separator THEN <<s>>
    ELSE LET k == CHOOSE i \in 1..Len(s) :
                      s[i] = separator /\ \A j \in 1..(i - 1) : s[j] # separator
         IN  <<SubSeq(s, 1, k - 1)>> \o Split(SubSeq(s, k + 1, Len(s)), separator)

\* the pattern without the anchor at the end: /^v\d+\.\d+/
versionTagRegex_Unanchored(s) ==
    /\ s # <<>> /\ Head(s) = "v"
    /\ LET major == DigitPrefix(Tail(s))
           rest == SubSeq(s, Len(major) + 2, Len(s))
       IN  /\ major # <<>>
           /\ rest # <<>> /\ Head(rest) = "."
           /\ DigitPrefix(Tail(rest)) # <<>>

\* /^v\d+\.\d+$/.test(s)
versionTagRegex(s) ==
    /\ s # <<>> /\ Head(s) = "v"
    /\ LET major == DigitPrefix(Tail(s))
           rest == SubSeq(s, Len(major) + 2, Len(s))
       IN  /\ major # <<>>
           /\ rest # <<>> /\ Head(rest) = "."
           /\ Tail(rest) # <<>> /\ DigitPrefix(Tail(rest)) = Tail(rest)

\* git tag --list "v*.*": the glob keeps the names with a "v" in front and a "." after it
MatchesTagGlob(name) ==
    /\ name # <<>> /\ Head(name) = "v"
    /\ \E i \in 2..Len(name) : name[i] = "."

\* what git tag --list "v*.*" --sort=-creatordate --merged HEAD prints, split
\* at the line breaks; an empty output splits into one empty line
gitTagLines(tags) ==
    LET listed == SelectSeq(tags, MatchesTagGlob)
    IN  IF listed = <<>> THEN << <<>> >> ELSE listed

NonEmptyLine(line) == line # <<>>

TrimmedLineMatches(tag) == versionTagRegex(Trim(tag))

HasVName(tag) == tag.isString /\ StartsWith(tag.name, <<"v">>)

NameMatches(tag) == versionTagRegex(tag.name)

Found(value) == [ok |-> TRUE, value |-> value, message |-> <<>>]
Failed(parts) == [ok |-> FALSE, value |-> <<>>, message |-> parts]

NoGitTagsPrefix == "No git tags found "
NoGlobTags == "No tags matching v*.* pattern found in repository ancestry"
NoVersionTagsLocal == "No tags matching the required format vX.Y found in repository ancestry"
GitFailed == "Command failed: git"
TagApiErrorPrefix == "Failed to get tag from GitHub API: Error: "
LatestTagErrorPrefix == "Failed to get latest tag from GitHub: "
MissingGitHubEnv == "Missing required GitHub environment variables"
NoTagsInRepository == "No tags found in repository"
NoVTags == "No tags starting with \"v\" found in repository"
NoVersionTagsRemote == "No tags matching the required format vX.Y found in repository"
GitHubFailed == "getaddrinfo ENOTFOUND api.github.com"
TagMustStartWithV == "Tag must start with \"v\""
InvalidTagFormat == "Invalid tag format. Expected v<major>.<minor>"

\* the local branch of getLatestTag, from the lines of the git output
getLatestTagLocal(lines) ==
    LET vTags == SelectSeq(lines, NonEmptyLine)
        versionTags == SelectSeq(vTags, TrimmedLineMatches)
    IN  IF vTags = <<>> THEN Failed(<<NoGitTagsPrefix, NoGlobTags>>)
        ELSE IF versionTags = <<>> THEN Failed(<<NoGitTagsPrefix, NoVersionTagsLocal>>)
        ELSE Found(versionTags[1])

\* getLatestTagFromGitHub after the await, inside the try of getLatestTag
getLatestTagFromGitHub(response) ==
    IF response.shape # "array" \/ response.data = <<>>
    THEN Failed(<<TagApiErrorPrefix, LatestTagErrorPrefix, NoTagsInRepository>>)
    ELSE LET allVTags == SelectSeq(response.data, HasVName)
             vTags == SelectSeq(allVTags, NameMatches)
         IN  IF allVTags = <<>>
             THEN Failed(<<TagApiErrorPrefix, LatestTagErrorPrefix, NoVTags>>)
             ELSE IF vTags = <<>>
             THEN Failed(<<TagApiErrorPrefix, LatestTagErrorPrefix, NoVersionTagsRemote>>)
             ELSE Found(vTags[1].name)

\* env.GITHUB_REPOSITORY?.split('/')[1]; <<>> is undefined or empty
repoOf(e) ==
    IF e.GITHUB_REPOSITORY = <<>> THEN <<>>
    ELSE LET parts == Split(e.GITHUB_REPOSITORY, "/")
         IN  IF Len(parts) >= 2 THEN parts[2] ELSE <<>>

\* branchName.replace(/^refs\/(heads|pull)\//, '')
stripRefsPrefix(branchName) ==
    IF StartsWith(branchName, <<"r", "e", "f", "s", "/", "h", "e", "a", "d", "s", "/">>)
    THEN SubSeq(branchName, 12, Len(branchName))
    ELSE IF StartsWith(branchName, <<"r", "e", "f", "s", "/", "p", "u", "l", "l", "/">>)
    THEN SubSeq(branchName, 11, Len(branchName))
    ELSE branchName

RECURSIVE replaceNonAlphanumeric_Collapsing(_)
\* a replacement that writes one hyphen for a run of characters
replaceNonAlphanumeric_Collapsing(branchName) ==
    IF branchName = <<>> THEN <<>>
    ELSE LET rest == replaceNonAlphanumeric_Collapsing(Tail(branchName))
         IN  IF IsAlphanumeric(Head(branchName)) THEN <<Head(branchName)>> \o rest
             ELSE IF rest # <<>> /\ Head(rest) = "-" THEN rest
             ELSE <<"-">> \o rest

\* branchName.replace(/[^a-zA-Z0-9]/g, '-')
replaceNonAlphanumeric(branchName) ==
    [i \in 1..Len(branchName) |->
        IF IsAlphanumeric(branchName[i]) THEN branchName[i] ELSE "-"]

cleanBranchName(branchName) == replaceNonAlphanumeric(stripRefsPrefix(branchName))

\* the tag components read as numbers and written back
splitTag_Numeric(t) ==
    LET parts == Split(Tail(t), ".")
    IN  [i \in 1..Len(parts) |->
            IF ParseInt(parts[i]).nan THEN parts[i] ELSE ToString(ParseInt(parts[i]).val)]

\* tag.substring(1).split('.')
splitTag(t) == Split(Tail(t), ".")

\* `${major}.${minor}.${patch}`
appReleaseVersionOf(major, minor, patch) ==
    major \o <<".">> \o minor \o <<".">> \o NumberToString(patch)

\* `${major}.${minor}.${patch}-${branchName}.${commitHash}`
versionOf(major, minor, patch, branchName, hash) ==
    appReleaseVersionOf(major, minor, patch) \o <<"-">> \o branchName \o <<".">> \o hash

CommitCountLocalFailed == "Failed to get commit count from tag "
CommitCountApiPrefix == "Failed to get commit count from tag via GITHUB API: "
CommitCountGitHubPrefix == "Failed to get commit count from GitHub: "
AheadByInvalid == "Invalid response from GitHub API: ahead_by is not a number: "
BranchFailed == "Failed to get current branch"
HashFailed == "Failed to get commit hash"
InvalidVersionCode == "Android version code generation failed: returned invalid version code"
InvalidBuildNumber == "iOS build number generation failed: returned invalid build number"

NoBase ==
    [tag |-> <<>>, major |-> <<>>, minor |-> <<>>, patch |-> [nan |-> FALSE, val |-> 0],
     branchName |-> <<>>, commitHash |-> <<>>, version |-> <<>>, appReleaseVersion |-> <<>>]

NoVersionInfo ==
    [major |-> <<>>, minor |-> <<>>, patch |-> [nan |-> FALSE, val |-> 0],
     branchName |-> <<>>, commitHash |-> <<>>, version |-> <<>>, appReleaseVersion |-> <<>>,
     androidVersionCode |-> <<>>, iosBuildNumber |-> <<>>, iosBuildNumberString |-> <<>>]

\* a return statement that writes 0 for a counter that was not computed
composeVersionInfo_ZeroDefaults(b, code, buildNumber, buildVersion) ==
    [major |-> b.major, minor |-> b.minor, patch |-> b.patch, branchName |-> b.branchName,
     commitHash |-> b.commitHash, version |-> b.version,
     appReleaseVersion |-> b.appReleaseVersion,
     androidVersionCode |-> IF code = <<>> THEN <<0>> ELSE code,
     iosBuildNumber |-> IF buildNumber = <<>> THEN <<0>> ELSE buildNumber,
     iosBuildNumberString |-> IF buildVersion = <<>> THEN << <<"0">> >> ELSE buildVersion]

\* the object generatePackageVersion returns; <<>> is undefined
composeVersionInfo(b, code, buildNumber, buildVersion) ==
    [major |-> b.major, minor |-> b.minor, patch |-> b.patch, branchName |-> b.branchName,
     commitHash |-> b.commitHash, version |-> b.version,
     appReleaseVersion |-> b.appReleaseVersion,
     androidVersionCode |-> code, iosBuildNumber |-> buildNumber,
     iosBuildNumberString |-> buildVersion]

PackageValue(info) == [kind |-> "value", info |-> info, message |-> <<>>]
PackageRejected(parts) == [kind |-> "error", info |-> NoVersionInfo, message |-> parts]
PackageUnsettled == [kind |-> "pending", info |-> NoVersionInfo, message |-> <<>>]

\* options.android?.enabled, options.ios?.enabled
platformEnabled(platform) == platform # <<>> /\ platform[1].enabled

\* a check that lets every counter through
validCounter_Any(n) == TRUE

\* versionCode > 0, and the negation of iosBuildNumber <= 0
validCounter(n) == n > 0

\* the caller's currentMajorVersion kept when it gave one
androidCallOptions_CallerWins(o, b) ==
    IF o.currentMajorVersion # 0 THEN o
    ELSE [o EXCEPT !.currentMajorVersion = ParseInt(b.major).val]

\* { ...options.android, currentMajorVersion: parseInt(major, 10) }
androidCallOptions(o, b) == [o EXCEPT !.currentMajorVersion = ParseInt(b.major).val]

\* { ...options.ios, appReleaseVersion, commitHash }
iosCallOptions(o, b) ==
    [o EXCEPT !.appReleaseVersion = b.appReleaseVersion, !.commitHash = b.commitHash]

(***************************************************************************)
(* index.ts: writeVersionToFile and generateAndWriteVersion                *)
(***************************************************************************)
\* the dir argument of the call
Dir == <<"/", "r", "e", "p", "o">>

MkdirFailed == "EACCES: permission denied, mkdir"
WriteFailed == "EACCES: permission denied, open"

\* path.join(dir, outputFilePath) for a relative path without "." and ".." segments
join(dir, path) == dir \o <<"/">> \o path

\* path.dirname(filePath)
dirname(filePath) ==
    LET slashes == {i \in 1..Len(filePath) : filePath[i] = "/"}
    IN  IF slashes = {} THEN <<".">>
        ELSE IF Max(slashes) = 1 THEN <<"/">>
        ELSE SubSeq(filePath, 1, Max(slashes) - 1)

\* a test that takes every outputFilePath as given
outputRequested_Always(path) == TRUE

\* if (outputFilePath)
outputRequested(path) == path # <<>>

\* outputFilePath.startsWith('/') ? outputFilePath : join(dir, outputFilePath)
versionFilePathOf(dir, path) == IF StartsWith(path, <<"/">>) THEN path ELSE join(dir, path)

\* the executor calls of writeVersionToFile; mkdirSync or writeFile may throw
writeVersionToFile(filePath, outcome) ==
    <<[op |-> "mkdirSync", path |-> dirname(filePath)]>>
    \o (IF outcome = "mkdirError" THEN <<>> ELSE <<[op |-> "writeFile", path |-> filePath]>>)

\* generateAndWriteVersion after the await of generatePackageVersion
GenerateAndWriteVersion ==
    /\ pkgPc = "done"
    /\ written.kind = "pending"
    /\ UNCHANGED <<androidVars, iosVars, packageVars, functionVars, outputFilePath>>
    /\ \E outcome \in {"ok", "mkdirError", "writeError"} :
        IF packageVersion.kind = "error" \/ ~outputRequested(outputFilePath)
        THEN /\ outcome = "ok"
             /\ written' = packageVersion
             /\ fsCalls' = fsCalls
        ELSE /\ fsCalls' = fsCalls \o writeVersionToFile(versionFilePathOf(Dir, outputFilePath),
                                                        outcome)
             /\ written' = IF outcome = "ok" THEN packageVersion
                           ELSE PackageRejected(<<IF outcome = "mkdirError" THEN MkdirFailed
                                                  ELSE WriteFailed>>)

\* processReleases called on its own
ProcessReleases ==
    /\ processed = <<>>
    /\ processed' = <<processReleases(releaseList, passedIn.highestVersionCode,
                                       passedIn.majorVersion)>>
    /\ UNCHANGED <<releaseList, passedIn>>
    /\ UNCHANGED <<androidVars, iosVars, packageVars>>
    /\ UNCHANGED <<hashVars, branchVars, base64Vars, writeVars>>

\* cleanBranchName called on a branch name, then on what it returned
CleanBranchName ==
    /\ Len(cleaned) < 2
    /\ cleaned' = Append(cleaned, cleanBranchName(IF cleaned = <<>> THEN branches ELSE cleaned[1]))
    /\ UNCHANGED branches
    /\ UNCHANGED <<androidVars, iosVars, packageVars>>
    /\ UNCHANGED <<hashVars, base64Vars, releaseVars, writeVars>>

(***************************************************************************)
(* base64.ts: JSON.parse, JSON.stringify and Buffer.from(.., 'base64')     *)
(***************************************************************************)
Base64Alphabet ==
    <<"A", "B", "C", "D", "E", "F", "G", "H", "I", "J", "K", "L", "M", "N", "O", "P",
      "Q", "R", "S", "T", "U", "V", "W", "X", "Y", "Z", "a", "b", "c", "d", "e", "f",
      "g", "h", "i", "j", "k", "l", "m", "n", "o", "p", "q", "r", "s", "t", "u", "v",
      "w", "x", "y", "z", "0", "1", "2", "3", "4", "5", "6", "7", "8", "9", "+", "/">>

\* [A-Za-z0-9+/]
IsBase64Character(c) == \E i \in 1..64 : Base64Alphabet[i] = c

\* the 6 bits a base64 character stands for
Base64Value(c) == (CHOOSE i \in 1..64 : Base64Alphabet[i] = c) - 1

\* the character with the code 96
GraveAccent == "<grave accent>"

\* the characters with the codes 32..126
PrintableAscii ==
    <<" ", "!", "\"", "#", "$", "%", "&", "'", "(", ")", "*", "+", ",", "-", ".", "/",
      "0", "1", "2", "3", "4", "5", "6", "7", "8", "9", ":", ";", "<", "=", ">", "?",
      "@", "A", "B", "C", "D", "E", "F", "G", "H", "I", "J", "K", "L", "M", "N", "O",
      "P", "Q", "R", "S", "T", "U", "V", "W", "X", "Y", "Z", "[", "\\", "]", "^", "_",
      GraveAccent, "a", "b", "c", "d", "e", "f", "g", "h", "i", "j", "k", "l", "m", "n", "o",
      "p", "q", "r", "s", "t", "u", "v", "w", "x", "y", "z", "{", "|", "}", "~">>

\* a control character other than tab, line feed and carriage return
ControlCharacter == "<control>"
\* what toString('utf8') makes of bytes above 127: a character outside ASCII
NonAsciiCharacter == "<non-ascii>"

\* toString('utf8') of one byte
CharacterOf(byte) ==
    IF byte >= 32 /\ byte <= 126 THEN PrintableAscii[byte - 31]
    ELSE IF byte = 9 THEN "\t"
    ELSE IF byte = 10 THEN "\n"
    ELSE IF byte = 13 THEN "\r"
    ELSE IF byte < 128 THEN ControlCharacter
    ELSE NonAsciiCharacter

\* the byte Buffer.from(text) holds for a character of the tables above
ByteOf(c) ==
    IF c = "\t" THEN 9
    ELSE IF c = "\n" THEN 10
    ELSE IF c = "\r" THEN 13
    ELSE (CHOOSE i \in 1..95 : PrintableAscii[i] = c) + 31

\* Body applied to the value of an expression, which is computed once
With(value, Body(_)) == CHOOSE r \in {Body(v) : v \in {value}} : TRUE

\* the characters before the first "=" that belong to the alphabet: the
\* decoder passes over every other character
Base64Digits(s) ==
    With({i \in 1..Len(s) : s[i] = "="}, LAMBDA pads :
        SelectSeq(SubSeq(s, 1, IF pads = {} THEN Len(s)
                               ELSE (CHOOSE i \in pads : \A j \in pads : i <= j) - 1),
                  IsBase64Character))

\* the bytes that the 6-bit values v hold: every 4 values give 3 bytes, 3
\* remaining values 2 bytes, 2 remaining values 1 byte
BytesOf(v) ==
    LET n == 3 * (Len(v) \div 4)
             + (IF Len(v) % 4 = 3 THEN 2 ELSE IF Len(v) % 4 = 2 THEN 1 ELSE 0)
        byte(k) ==
            LET g == 4 * ((k - 1) \div 3)
            IN  IF (k - 1) % 3 = 0 THEN v[g + 1] * 4 + v[g + 2] \div 16
                ELSE IF (k - 1) % 3 = 1 THEN (v[g + 2] % 16) * 16 + v[g + 3] \div 4
                ELSE (v[g + 3] % 4) * 64 + v[g + 4]
    IN  [k \in 1..n |-> byte(k)]

\* Buffer.from(s, 'base64').toString('utf8')
Base64Decode(s) ==
    With(Base64Digits(s), LAMBDA digits :
        With(BytesOf([i \in 1..Len(digits) |-> Base64Value(digits[i])]), LAMBDA bytes :
            [k \in 1..Len(bytes) |-> CharacterOf(bytes[k])]))

\* the base64 characters for the bytes b, padded with "=" to a multiple of 4
DigitsOf(b) ==
    LET at(i) == IF i <= Len(b) THEN b[i] ELSE 0
        n == 4 * ((Len(b) + 2) \div 3)
        digit(j) ==
            LET g == 3 * ((j - 1) \div 4)
                q == (j - 1) % 4
            IN  IF q = 0 THEN Base64Alphabet[at(g + 1) \div 4 + 1]
                ELSE IF q = 1 THEN Base64Alphabet[(at(g + 1) % 4) * 16 + at(g + 2) \div 16 + 1]
                ELSE IF g + 2 > Len(b) THEN "="
                ELSE IF q = 2 THEN Base64Alphabet[(at(g + 2) % 16) * 4 + at(g + 3) \div 64 + 1]
                ELSE IF g + 3 > Len(b) THEN "="
                ELSE Base64Alphabet[(at(g + 3) % 64) + 1]
    IN  [j \in 1..n |-> digit(j)]

\* Buffer.from(text).toString('base64')
Base64Encode(text) ==
    With(text, LAMBDA t :
        With([i \in 1..Len(t) |-> ByteOf(t[i])], LAMBDA b : DigitsOf(b)))

\* a parsed JSON value: type is "object", "array", "string", "number",
\* "boolean" or "null"; text holds the characters of a string, number or
\* boolean, items the members of an object or the elements of an array
JsonValue(type, text, items) == [type |-> type, text |-> text, items |-> items]

Parsed(v, rest) == [ok |-> TRUE, value |-> v, rest |-> rest]
NotParsed == [ok |-> FALSE, value |-> JsonValue("null", <<>>, <<>>), rest |-> <<>>]

\* the number of backslashes immediately before position i
BackslashesBefore(s, i) ==
    CHOOSE k \in 0..(i - 1) :
        /\ \A j \in (i - k)..(i - 1) : s[j] = "\\"
        /\ k = i - 1 \/ s[i - k - 1] # "\\"

\* the character at position i follows a backslash that escapes it
Escaped(s, i) == BackslashesBefore(s, i) % 2 = 1

\* the character an escape sequence stands for
Unescape(c) ==
    IF c = "n" THEN "\n"
    ELSE IF c = "t" THEN "\t"
    ELSE IF c = "r" THEN "\r"
    ELSE IF c \in {"b", "f"} THEN ControlCharacter
    ELSE c

\* the characters of body with the escape sequences at the positions escapes
\* replaced by the characters they stand for
Unescaped(body, escapes) ==
    With((1..Len(body)) \ escapes, LAMBDA kept :
        LET at(k) == CHOOSE p \in kept : Cardinality({q \in kept : q <= p}) = k
            char(p) == IF (p - 1) \in escapes THEN Unescape(body[p]) ELSE body[p]
        IN  [k \in 1..Cardinality(kept) |-> char(at(k))])

\* the string with the characters body, when they are allowed in a string:
\* no control characters, and only the escapes JSON knows (the inputs hold
\* no \u escapes)
StringOf(body, rest) ==
    With({i \in 1..Len(body) : body[i] = "\\" /\ ~Escaped(body, i)}, LAMBDA escapes :
        IF \E i \in 1..Len(body) : body[i] \in {"\n", "\t", "\r", ControlCharacter}
        THEN NotParsed
        ELSE IF \E i \in escapes : body[i + 1] \notin {"\"", "\\", "/", "b", "f", "n", "r", "t"}
        THEN NotParsed
        ELSE Parsed(JsonValue("string", Unescaped(body, escapes), <<>>), rest))

\* a JSON string after its opening quote: the characters up to the first
\* quote that no backslash escapes
ParseString(s) ==
    With(s, LAMBDA t :
        With({i \in 1..Len(t) : t[i] = "\"" /\ ~Escaped(t, i)}, LAMBDA ends :
            IF ends = {} THEN NotParsed
            ELSE With(CHOOSE i \in ends : \A j \in ends : i <= j, LAMBDA end :
                     With(SubSeq(t, 1, end - 1), LAMBDA body :
                         StringOf(body, SubSeq(t, end + 1, Len(t)))))))

\* the digits of a fraction at the start of s with the ".", <<>> when s does
\* not start with "."
FractionAt(s) ==
    IF s # <<>> /\ Head(s) = "." THEN <<".">> \o DigitPrefix(Tail(s)) ELSE <<>>

\* the exponent at the start of s with its "e" and sign, <<>> when s does not
\* start with "e" or "E"
ExponentAt(s) ==
    IF s # <<>> /\ Head(s) \in {"e", "E"}
    THEN IF Len(s) > 1 /\ s[2] \in {"+", "-"}
         THEN <<s[1], s[2]>> \o DigitPrefix(SubSeq(s, 3, Len(s)))
         ELSE <<s[1]>> \o DigitPrefix(Tail(s))
    ELSE <<>>

\* a JSON number: -? int frac? exp?
ParseNumber(s) ==
    With(s, LAMBDA t :
     With(IF t # <<>> /\ Head(t) = "-" THEN <<"-">> ELSE <<>>, LAMBDA sign :
      With(DigitPrefix(SubSeq(t, Len(sign) + 1, Len(t))), LAMBDA int :
       With(FractionAt(SubSeq(t, Len(sign) + Len(int) + 1, Len(t))), LAMBDA frac :
        With(ExponentAt(SubSeq(t, Len(sign) + Len(int) + Len(frac) + 1, Len(t))), LAMBDA exp :
            IF /\ int # <<>> /\ (Len(int) = 1 \/ int[1] # "0")
               /\ Len(frac) # 1
               /\ exp = <<>> \/ IsDigit(exp[Len(exp)])
            THEN Parsed(JsonValue("number", sign \o int \o frac \o exp, <<>>),
                        SubSeq(t, Len(sign) + Len(int) + Len(frac) + Len(exp) + 1, Len(t)))
            ELSE NotParsed)))))

\* one of the literals true, false and null at the start of s
ParseLiteral(s, word, v) ==
    IF StartsWith(s, word) THEN Parsed(v, SubSeq(s, Len(word) + 1, Len(s))) ELSE NotParsed

RECURSIVE ParseValue(_)
RECURSIVE ParseMembers(_, _)
RECURSIVE ParseElements(_, _)

\* after a member or element: "," and the next one, or the closing bracket
\* and the value with the items
AfterItem(after, items, type) ==
    IF after = <<>> THEN NotParsed
    ELSE IF Head(after) = ","
    THEN IF type = "object" THEN ParseMembers(Tail(after), items)
         ELSE ParseElements(Tail(after), items)
    ELSE IF Head(after) = (IF type = "object" THEN "}" ELSE "]")
    THEN Parsed(JsonValue(type, <<>>, items), Tail(after))
    ELSE NotParsed

\* the members of an object after "{" or ",", up to "}"
ParseMembers(s, acc) ==
    With(TrimStart(s), LAMBDA t :
        IF t = <<>> \/ Head(t) # "\"" THEN NotParsed
        ELSE With(ParseString(Tail(t)), LAMBDA key :
            With(TrimStart(key.rest), LAMBDA colon :
                IF ~key.ok \/ colon = <<>> \/ Head(colon) # ":" THEN NotParsed
                ELSE With(ParseValue(Tail(colon)), LAMBDA member :
                    IF ~member.ok THEN NotParsed
                    ELSE With(TrimStart(member.rest), LAMBDA after :
                        AfterItem(after,
                                  Append(acc, [key |-> key.value.text, value |-> member.value]),
                                  "object"))))))

\* the elements of an array after "[" or ",", up to "]"
ParseElements(s, acc) ==
    With(ParseValue(s), LAMBDA element :
        IF ~element.ok THEN NotParsed
        ELSE With(TrimStart(element.rest), LAMBDA after :
            AfterItem(after, Append(acc, element.value), "array")))

\* an object or array after its opening bracket: empty, or with items
ParseItems(inner, type) ==
    IF inner # <<>> /\ Head(inner) = (IF type = "object" THEN "}" ELSE "]")
    THEN Parsed(JsonValue(type, <<>>, <<>>), Tail(inner))
    ELSE IF type = "object" THEN ParseMembers(inner, <<>>)
    ELSE ParseElements(inner, <<>>)

\* one JSON value at the start of s, after whitespace
ParseValue(s) ==
    With(TrimStart(s), LAMBDA t :
        IF t = <<>> THEN NotParsed
        ELSE IF Head(t) = "{" THEN With(TrimStart(Tail(t)), LAMBDA inner : ParseItems(inner, "object"))
        ELSE IF Head(t) = "[" THEN With(TrimStart(Tail(t)), LAMBDA inner : ParseItems(inner, "array"))
        ELSE IF Head(t) = "\"" THEN ParseString(Tail(t))
        ELSE IF Head(t) = "t"
        THEN ParseLiteral(t, <<"t", "r", "u", "e">>,
                          JsonValue("boolean", <<"t", "r", "u", "e">>, <<>>))
        ELSE IF Head(t) = "f"
        THEN ParseLiteral(t, <<"f", "a", "l", "s", "e">>,
                          JsonValue("boolean", <<"f", "a", "l", "s", "e">>, <<>>))
        ELSE IF Head(t) = "n"
        THEN ParseLiteral(t, <<"n", "u", "l", "l">>, JsonValue("null", <<>>, <<>>))
        ELSE ParseNumber(t))

\* JSON.parse(s): one value with nothing but whitespace around it; ok is
\* FALSE where JSON.parse throws
JSONParse(s) ==
    With(ParseValue(s), LAMBDA parsed :
        IF parsed.ok /\ TrimStart(parsed.rest) = <<>> THEN parsed ELSE NotParsed)

RECURSIVE EscapeString(_)
\* the characters of a string between the quotes JSON.stringify writes
EscapeString(text) ==
    IF text = <<>> THEN <<>>
    ELSE (IF Head(text) \in {"\"", "\\"} THEN <<"\\", Head(text)>> ELSE <<Head(text)>>)
         \o EscapeString(Tail(text))

RECURSIVE JSONStringify(_)
RECURSIVE StringifyItems(_, _)
\* the members or elements of v from position i on, separated by commas
StringifyItems(v, i) ==
    IF i > Len(v.items) THEN <<>>
    ELSE (IF i > 1 THEN <<",">> ELSE <<>>)
         \o (IF v.type = "object"
             THEN <<"\"">> \o EscapeString(v.items[i].key) \o <<"\"", ":">>
                  \o JSONStringify(v.items[i].value)
             ELSE JSONStringify(v.items[i]))
         \o StringifyItems(v, i + 1)

\* JSON.stringify(v)
JSONStringify(v) ==
    IF v.type = "object" THEN <<"{">> \o StringifyItems(v, 1) \o <<"}">>
    ELSE IF v.type = "array" THEN <<"[">> \o StringifyItems(v, 1) \o <<"]">>
    ELSE IF v.type = "string" THEN <<"\"">> \o EscapeString(v.text) \o <<"\"">>
    ELSE IF v.type = "null" THEN <<"n", "u", "l", "l">>
    ELSE v.text

(***************************************************************************)
(* base64.ts: isBase64 and parseJSONValue                                  *)
(***************************************************************************)
\* a replace that takes out the spaces only
removeWhitespace_SpacesOnly(str) == SelectSeq(str, LAMBDA c : c # " ")

\* str.replace(/\s/g, '')
removeWhitespace(str) == SelectSeq(str, LAMBDA c : ~IsSpace(c))

\* /^[A-Za-z0-9+/]*={0,2}$/.test(cleanStr)
base64Regex(cleanStr) ==
    \E padding \in 0..2 :
        /\ padding <= Len(cleanStr)
        /\ \A i \in 1..Len(cleanStr) :
              IF i > Len(cleanStr) - padding THEN cleanStr[i] = "="
              ELSE IsBase64Character(cleanStr[i])

\* typeof parsed === 'object': objects, arrays and null
typeofObject(v) == v.type \in {"object", "array", "null"}

\* the catch of the first JSON.parse returning false
directJson_AnyJson(str) == JSONParse(str).ok

\* typeof parsed === 'object' && parsed !== null for the parse of str itself
directJson(str) ==
    With(JSONParse(str), LAMBDA parsed :
        parsed.ok /\ typeofObject(parsed.value) /\ parsed.value.type # "null")

\* a return of isBase64: the value and the statement that returned it
Returns(value, at) == [returned |-> value, at |-> at]

\* isBase64 from the try block on: decoded is what the cleaned string
\* decodes to
tryDecode(decoded, expectJson) ==
    IF decoded = <<>> THEN Returns(FALSE, "emptyDecode")
    ELSE IF expectJson
    THEN With(JSONParse(decoded), LAMBDA parsed :
             Returns(parsed.ok /\ typeofObject(parsed.value), "decodedJson"))
    ELSE Returns(TRUE, "decoded")

RECURSIVE isBase64Returns(_, _)
\* isBase64 with the return statement it leaves by
isBase64Returns(str, expectJson) ==
    IF str = <<>> THEN Returns(FALSE, "empty")
    ELSE IF Head(str) = "\"" /\ str[Len(str)] = "\""
    THEN isBase64Returns(SubSeq(str, 2, Len(str) - 1), expectJson)
    ELSE IF expectJson /\ directJson(str) THEN Returns(FALSE, "directJson")
    ELSE With(removeWhitespace(str), LAMBDA cleanStr :
             IF ~base64Regex(cleanStr) THEN Returns(FALSE, "shape")
             ELSE With(Base64Decode(cleanStr), LAMBDA decoded : tryDecode(decoded, expectJson)))

isBase64(str, expectJson) == isBase64Returns(str, expectJson).returned

Base64ParseError == "Failed to parse base64-encoded service account key: "
JsonParseError == "Value is neither valid JSON nor valid base64-encoded JSON: "
SyntaxError == "Unexpected token"

ParsedValue(v) == [kind |-> "value", value |-> <<v>>, message |-> <<>>]
ParseFailure(parts) == [kind |-> "error", value |-> <<>>, message |-> parts]

\* try { return JSON.parse(text) } catch (e) { throw new Error(prefix + message) }
parseOrThrow(text, prefix) ==
    With(JSONParse(text), LAMBDA parsed :
        IF parsed.ok THEN ParsedValue(parsed.value)
        ELSE ParseFailure(<<prefix, SyntaxError>>))

parseJSONValue(value) ==
    IF isBase64(value, TRUE)
    THEN parseOrThrow(Base64Decode(removeWhitespace(value)), Base64ParseError)
    ELSE parseOrThrow(value, JsonParseError)

\* isBase64(candidate, jsonExpected)
IsBase64 ==
    /\ isBase64Result = <<>>
    /\ isBase64Result' = <<isBase64Returns(candidate, jsonExpected)>>
    /\ UNCHANGED <<candidate, jsonExpected, parsedValue>>
    /\ UNCHANGED <<androidVars, iosVars, packageVars>>
    /\ UNCHANGED <<hashVars, branchVars, releaseVars, writeVars>>

\* parseJSONValue(candidate)
ParseJSONValue ==
    /\ parsedValue.kind = "pending"
    /\ parsedValue' = parseJSONValue(candidate)
    /\ UNCHANGED <<candidate, jsonExpected, isBase64Result>>
    /\ UNCHANGED <<androidVars, iosVars, packageVars>>
    /\ UNCHANGED <<hashVars, branchVars, releaseVars, writeVars>>

(***************************************************************************)
(* index.ts: generatePackageVersion                                        *)
(***************************************************************************)
\* env.GITHUB_SHA.substring(0, 8)
shortSha(sha) == IF Len(sha) <= 8 THEN sha ELSE SubSeq(sha, 1, 8)

\* a test of the CI signal that also asks for the repository identity
inGitHubActions_Configured(e) ==
    e.GITHUB_ACTIONS = "true" /\ e.GITHUB_REPOSITORY_OWNER # "" /\ repoOf(e) # <<>>

\* env.GITHUB_ACTIONS === 'true'
inGitHubActions(e) == e.GITHUB_ACTIONS = "true"

\* the ref name read before the head ref
getCurrentBranch_RefNameFirst(e, local) ==
    IF e.GITHUB_REF_NAME # <<>> THEN e.GITHUB_REF_NAME
    ELSE IF e.GITHUB_HEAD_REF # <<>> THEN e.GITHUB_HEAD_REF
    ELSE local

\* getCurrentBranch, with the answer of git rev-parse --abbrev-ref HEAD as local
getCurrentBranch(e, local) ==
    IF e.GITHUB_HEAD_REF # <<>> THEN e.GITHUB_HEAD_REF
    ELSE IF e.GITHUB_REF_NAME # <<>> THEN e.GITHUB_REF_NAME
    ELSE local

\* getShortCommitHash, with the answer of git rev-parse --short=8 HEAD as local
getShortCommitHash(e, local) ==
    IF e.GITHUB_SHA # <<>> THEN shortSha(e.GITHUB_SHA) ELSE local

\* await getAndroidVersionCode(opts): the call starts
CallAndroid(opts) ==
    /\ options' = opts
    /\ pc' = "start"
    /\ UNCHANGED <<tracks, highestVersionCode, majorVersion, editId, pending, trackError,
                   tracksError, calls, credentialsParsed, warnings, currentVersionInfo, result>>

\* await getIosBuildNumberInfo(opts): the call starts
CallIos(opts) ==
    /\ iosOptions' = opts
    /\ iosPc' = "start"
    /\ UNCHANGED <<builds, token, iosCalls, iosError, iosResult>>

\* return { major, minor, patch, ... }
Return(b, code, buildNumber, buildVersion) ==
    /\ packageVersion' = PackageValue(composeVersionInfo(b, code, buildNumber, buildVersion))
    /\ pkgPc' = "done"

\* an error leaves generatePackageVersion
Throw(parts) ==
    /\ packageVersion' = PackageRejected(parts)
    /\ pkgPc' = "done"

\* if (options.ios?.enabled) ... and the return, with the locals b and androidVersionCode
IosPart(b, code) ==
    IF platformEnabled(ios)
    THEN /\ CallIos(iosCallOptions(ios[1], b))
         /\ pkgPc' = "ios"
         /\ UNCHANGED packageVersion
    ELSE /\ Return(b, code, <<>>, <<>>)
         /\ UNCHANGED iosVars

\* if (options.android?.enabled) ..., with the locals b
AndroidPart(b) ==
    IF platformEnabled(android)
    THEN /\ CallAndroid(androidCallOptions(android[1], b))
         /\ pkgPc' = "android"
         /\ UNCHANGED <<iosVars, androidVersionCode, packageVersion>>
    ELSE /\ UNCHANGED <<androidVars, androidVersionCode>>
         /\ IosPart(b, <<>>)

\* generatePackageVersion up to the await of getCommitCount: getLatestTag and the tag checks
GeneratePackageVersion ==
    /\ pkgPc = "start"
    /\ UNCHANGED <<androidVars, iosVars, functionVars, writeVars>>
    /\ UNCHANGED <<env, git, github, android, ios, androidVersionCode>>
    /\ \E outcome \in {"ok", "error"} :
        LET remote == inGitHubActions(env)
            configured == env.GITHUB_REPOSITORY_OWNER # "" /\ repoOf(env) # <<>>
            latest ==
                IF remote
                THEN IF ~configured THEN Failed(<<TagApiErrorPrefix, MissingGitHubEnv>>)
                     ELSE IF outcome = "error"
                     THEN Failed(<<TagApiErrorPrefix, LatestTagErrorPrefix, GitHubFailed>>)
                     ELSE getLatestTagFromGitHub(github.tags)
                ELSE IF outcome = "error" THEN Failed(<<NoGitTagsPrefix, GitFailed>>)
                     ELSE getLatestTagLocal(gitTagLines(git.tags))
            parts == splitTag(latest.value)
        IN  /\ (remote /\ ~configured) => outcome = "ok"
            /\ execCalls' = IF ~remote THEN Append(execCalls, "git tag")
                            ELSE IF configured THEN Append(execCalls, "getGitHubData tags")
                            ELSE execCalls
            /\ IF ~latest.ok
               THEN Throw(latest.message) /\ base' = base
               ELSE IF ~StartsWith(latest.value, <<"v">>)
               THEN Throw(<<TagMustStartWithV>>) /\ base' = base
               ELSE IF parts[1] = <<>> \/ Len(parts) < 2 \/ parts[2] = <<>>
               THEN Throw(<<InvalidTagFormat>>) /\ base' = base
               ELSE /\ base' = [base EXCEPT !.tag = latest.value, !.major = parts[1],
                                            !.minor = parts[2]]
                    /\ pkgPc' = "commitCount"
                    /\ UNCHANGED packageVersion

\* await getCommitCount(tag, ...)
GetCommitCount ==
    /\ pkgPc = "commitCount"
    /\ UNCHANGED <<androidVars, iosVars, functionVars, writeVars>>
    /\ UNCHANGED <<env, git, github, android, ios, androidVersionCode>>
    /\ \E outcome \in {"ok", "error"} :
        LET remote == inGitHubActions(env)
            configured == /\ env.GITHUB_REPOSITORY_OWNER # "" /\ repoOf(env) # <<>>
                          /\ env.GITHUB_SHA # <<>>
            count ==
                IF remote
                THEN IF ~configured THEN Failed(<<CommitCountApiPrefix, MissingGitHubEnv>>)
                     ELSE IF outcome = "error"
                     THEN Failed(<<CommitCountApiPrefix, CommitCountGitHubPrefix, GitHubFailed>>)
                     ELSE IF github.aheadBy = <<>>
                     THEN Failed(<<CommitCountApiPrefix, CommitCountGitHubPrefix, AheadByInvalid>>)
                     ELSE Found([nan |-> FALSE, val |-> github.aheadBy[1]])
                ELSE IF outcome = "error" THEN Failed(<<CommitCountLocalFailed>>)
                     ELSE Found(ParseInt(git.count))
        IN  /\ (remote /\ ~configured) => outcome = "ok"
            /\ execCalls' = IF ~remote THEN Append(execCalls, "git rev-list")
                            ELSE IF configured THEN Append(execCalls, "getGitHubData compare")
                            ELSE execCalls
            /\ IF ~count.ok
               THEN Throw(count.message) /\ base' = base
               ELSE /\ base' = [base EXCEPT !.patch = count.value]
                    /\ pkgPc' = "assemble"
                    /\ UNCHANGED packageVersion

\* getCurrentBranch, cleanBranchName, getShortCommitHash, the two version
\* strings, and the code up to the next await
AssembleVersion ==
    /\ pkgPc = "assemble"
    /\ UNCHANGED <<functionVars, writeVars>>
    /\ UNCHANGED <<env, git, github, android, ios>>
    /\ \E outcome \in {"ok", "branchError", "hashError"} :
        LET branchFromGit == env.GITHUB_HEAD_REF = <<>> /\ env.GITHUB_REF_NAME = <<>>
            hashFromGit == env.GITHUB_SHA = <<>>
            branch == getCurrentBranch(env, git.branch)
            hash == getShortCommitHash(env, git.hash)
            b == [base EXCEPT
                    !.branchName = cleanBranchName(branch),
                    !.commitHash = hash,
                    !.version = versionOf(base.major, base.minor, base.patch,
                                          cleanBranchName(branch), hash),
                    !.appReleaseVersion = appReleaseVersionOf(base.major, base.minor, base.patch)]
        IN  /\ outcome = "branchError" => branchFromGit
            /\ outcome = "hashError" => hashFromGit
            /\ execCalls' = execCalls
                   \o (IF branchFromGit THEN <<"git rev-parse --abbrev-ref">> ELSE <<>>)
                   \o (IF hashFromGit /\ outcome # "branchError"
                       THEN <<"git rev-parse --short">> ELSE <<>>)
            /\ IF outcome = "ok"
               THEN base' = b /\ AndroidPart(b)
               ELSE /\ Throw(IF outcome = "branchError" THEN <<BranchFailed>> ELSE <<HashFailed>>)
                    /\ UNCHANGED <<base, androidVars, iosVars, androidVersionCode>>

\* getAndroidVersionCode has settled: the check of the version code, then the iOS part
AndroidSettled ==
    /\ pkgPc = "android"
    /\ pc = "done"
    /\ UNCHANGED <<androidVars, functionVars, writeVars>>
    /\ UNCHANGED <<env, git, github, android, ios, base, execCalls>>
    /\ IF result.kind = "error"
       THEN Throw(result.message) /\ UNCHANGED <<iosVars, androidVersionCode>>
       ELSE IF validCounter(result.value)
       THEN androidVersionCode' = <<result.value>> /\ IosPart(base, <<result.value>>)
       ELSE Throw(<<InvalidVersionCode>>) /\ UNCHANGED <<iosVars, androidVersionCode>>

\* getIosBuildNumberInfo has settled: the check of the build number, then the return
IosSettled ==
    /\ pkgPc = "ios"
    /\ iosPc = "done"
    /\ UNCHANGED <<androidVars, iosVars, functionVars, writeVars>>
    /\ UNCHANGED <<env, git, github, android, ios, base, androidVersionCode, execCalls>>
    /\ IF iosResult.kind = "error"
       THEN Throw(iosResult.message)
       ELSE IF validCounter(iosResult.info.buildNumber)
       THEN Return(base, androidVersionCode, <<iosResult.info.buildNumber>>,
                   <<iosResult.info.buildVersion>>)
       ELSE Throw(<<InvalidBuildNumber>>)

(***************************************************************************)
(* Inputs                                                                  *)
(***************************************************************************)
\* Play Store releases: version codes are positive decimal integers as the
\* platform issues them, next to entries parseInt cannot read ("a"),
\* releases without version codes and names with and without a leading
\* "<major>."
ReleasePool ==
    { [versionCodes |-> <<<<"2">>>>, name |-> <<"2", ".", "0">>],
      [versionCodes |-> <<<<"2">>>>, name |-> <<"1", ".", "0">>],
      [versionCodes |-> <<<<"a">>, <<"1", "3">>>>, name |-> <<"R", "1">>],
      [versionCodes |-> <<<<"a">>>>, name |-> <<>>],
      [versionCodes |-> <<>>, name |-> <<"1", ".", "0">>] }

ReleaseLists == UNION {[1..k -> ReleasePool] : k \in 0..MaxReleases}

TrackOrders == { <<>>, <<"production">>, <<"beta">>,
                 <<"production", "beta">>, <<"beta", "production">> }

RECURSIVE TotalReleases(_)
TotalReleases(ts) == IF ts = <<>> THEN 0 ELSE Len(Head(ts).releases) + TotalReleases(Tail(ts))

PlayStores ==
    UNION { { ts \in { [i \in 1..Len(order) |-> [track |-> order[i], releases |-> rs[i]]] :
                         rs \in [1..Len(order) -> ReleaseLists] } :
              TotalReleases(ts) <= MaxReleases } : order \in TrackOrders }

MajorVersionIncrements == {<<>>, <<0>>, <<MaxIncrement>>}

\* the increment only matters to the highest current major version
EnabledAndroidOptions ==
    { o \in [enabled : {TRUE}, packageName : {"com.example.app"}, serviceAccountKey : {JsonKey},
             track : {"", "beta"}, majorVersionIncrement : MajorVersionIncrements,
             currentMajorVersion : 1..MaxMajor] :
        o.majorVersionIncrement = <<>> \/ o.currentMajorVersion = MaxMajor }

OtherAndroidOptions ==
    [enabled : {TRUE}, packageName : {"com.example.app", ""},
     serviceAccountKey : {Base64Key, GarbageKey, ""},
     track : {"beta"}, majorVersionIncrement : {<<>>}, currentMajorVersion : {MaxMajor}]
    \cup
    [enabled : {FALSE}, packageName : {"com.example.app", ""},
     serviceAccountKey : {JsonKey, GarbageKey, ""},
     track : {"", "beta"}, majorVersionIncrement : {<<>>}, currentMajorVersion : {MaxMajor}]

AndroidDisabled ==
    [enabled |-> FALSE, packageName |-> "com.example.app", serviceAccountKey |-> JsonKey,
     track |-> "", majorVersionIncrement |-> <<>>, currentMajorVersion |-> 1]

\* App Store Connect build records: build numbers parseInt reads whole ("3"),
\* reads a prefix of ("2.1") or cannot read ("x"), of two release versions
BuildPool ==
    { [hasAttributes |-> TRUE, version |-> <<"1", ".", "0", ".", "0">>, buildNumber |-> <<"3">>],
      [hasAttributes |-> TRUE, version |-> <<"1", ".", "0", ".", "0">>, buildNumber |-> <<"5">>],
      [hasAttributes |-> TRUE, version |-> <<"1", ".", "0", ".", "0">>, buildNumber |-> <<"2", ".", "1">>],
      [hasAttributes |-> TRUE, version |-> <<"1", ".", "1", ".", "0">>, buildNumber |-> <<"1", "0">>],
      [hasAttributes |-> TRUE, version |-> <<"1", ".", "0", ".", "0">>, buildNumber |-> <<"x">>],
      [hasAttributes |-> TRUE, version |-> <<"1", ".", "0", ".", "0">>, buildNumber |-> <<"0">>],
      [hasAttributes |-> FALSE, version |-> <<>>, buildNumber |-> <<>>] }

BuildResponses ==
    { [shape |-> "undefined", data |-> <<>>], [shape |-> "object", data |-> <<>>] }
    \cup { [shape |-> "array", data |-> d] : d \in UNION {[1..k -> BuildPool] : k \in 0..MaxBuilds} }

CommitHashes ==
    { <<>>, <<"a", "b", "c", "d", "e", "f", "1", "2", "3", "4">>,
      <<"f", "f", "f", "f", "f", "f", "f", "f">> }

EnabledIosOptions ==
    [enabled : {TRUE}, apiKeyId : {"test-key-id"}, apiIssuerId : {"test-issuer-id"},
     apiPrivateKey : {"test-private-key"}, bundleId : {"com.example.app"},
     appReleaseVersion : {<<"1", ".", "0", ".", "0">>}, commitHash : CommitHashes]

RequiredIosOptions == {"apiKeyId", "apiIssuerId", "apiPrivateKey", "bundleId", "appReleaseVersion"}

OtherIosOptions ==
    { o \in [enabled : BOOLEAN, apiKeyId : {"test-key-id", ""},
             apiIssuerId : {"test-issuer-id", ""}, apiPrivateKey : {"test-private-key", ""},
             bundleId : {"com.example.app", ""},
             appReleaseVersion : {<<"1", ".", "0", ".", "0">>, <<>>},
             commitHash : {<<>>}] :
        LET missing == Cardinality({f \in RequiredIosOptions \ {"appReleaseVersion"} : o[f] = ""})
                       + (IF o.appReleaseVersion = <<>> THEN 1 ELSE 0)
        IN  IF o.enabled THEN missing \in {1, 5} ELSE missing \in {0, 1, 5} }

IosDisabled ==
    [enabled |-> FALSE, apiKeyId |-> "test-key-id", apiIssuerId |-> "test-issuer-id",
     apiPrivateKey |-> "test-private-key", bundleId |-> "com.example.app",
     appReleaseVersion |-> <<"1", ".", "0", ".", "0">>, commitHash |-> <<>>]

\* commit hashes: 8 hexadecimal characters around the 31-bit boundary, longer
\* hashes sharing them, and hashes shorter than 8 characters
HashPrefixes ==
    { <<"0", "0", "0", "0", "0", "0", "0", "0">>,
      <<"0", "0", "0", "0", "0", "0", "0", "1">>,
      <<"7", "f", "f", "f", "f", "f", "f", "f">>,
      <<"8", "0", "0", "0", "0", "0", "0", "0">>,
      <<"f", "f", "f", "f", "f", "f", "f", "f">>,
      <<"a", "b", "c", "d", "e", "f", "1", "2">>,
      <<"1", "2", "3", "4", "5", "6", "7", "8">> }

HashTails == UNION {[1..k -> {"3", "e"}] : k \in 0..MaxTail}

HashPool == {p \o t : p \in HashPrefixes, t \in HashTails} \cup {<<"a", "b", "c">>, <<"7">>}

\* tag names: of the shape v<digits>.<digits> (with a leading zero, with
\* several digits) and of other shapes, with and without the "v" and the "."
TagPool ==
    { <<"v", "1", ".", "2">>,
      <<"v", "0", "1", ".", "2">>,
      <<"v", "2", ".", "1", "0">>,
      <<"v", "1">>,
      <<"v", "1", ".", "2", ".", "3">>,
      <<"r", "e", "l", "e", "a", "s", "e", "-", "1", ".", "0">>,
      <<"v", "1", ".", "x">> }

\* the tags merged into HEAD, newest first
TagLists == UNION {[1..k -> TagPool] : k \in 0..MaxTags}

\* the GitHub tags response listing the same tags
tagsResponse(tags) ==
    [shape |-> "array", data |-> [i \in 1..Len(tags) |-> [isString |-> TRUE, name |-> tags[i]]]]

OtherTagsResponses ==
    { [shape |-> "object", data |-> <<>>],
      [shape |-> "array",
       data |-> <<[isString |-> FALSE, name |-> <<>>],
                  [isString |-> TRUE, name |-> <<"v", "1", ".", "2">>]>>] }

LocalEnv ==
    [GITHUB_ACTIONS |-> "", GITHUB_REPOSITORY_OWNER |-> "", GITHUB_REPOSITORY |-> <<>>,
     GITHUB_SHA |-> <<>>, GITHUB_HEAD_REF |-> <<>>, GITHUB_REF_NAME |-> <<>>]

FullSha == <<"a", "b", "c", "d", "e", "f", "1", "2", "3", "4", "5", "6", "7", "8", "9", "0", "a", "b", "c", "d", "e", "f", "1", "2", "3", "4", "5", "6", "7", "8", "9", "0", "a", "b", "c", "d", "e", "f", "1", "2">>

CiEnv ==
    [GITHUB_ACTIONS |-> "true", GITHUB_REPOSITORY_OWNER |-> "acme",
     GITHUB_REPOSITORY |-> <<"a", "c", "m", "e", "/", "a", "p", "p">>,
     GITHUB_SHA |-> FullSha, GITHUB_HEAD_REF |-> <<>>,
     GITHUB_REF_NAME |-> <<"m", "a", "i", "n">>]

\* CI runs with the repository identity or the commit missing
OtherCiEnvs ==
    { [CiEnv EXCEPT !.GITHUB_REPOSITORY_OWNER = ""],
      [CiEnv EXCEPT !.GITHUB_REPOSITORY = <<"a", "p", "p">>],
      [CiEnv EXCEPT !.GITHUB_REPOSITORY = <<>>],
      [CiEnv EXCEPT !.GITHUB_SHA = <<>>] }

BranchNames ==
    { <<"m", "a", "i", "n">>,
      <<"r", "e", "f", "s", "/", "h", "e", "a", "d", "s", "/", "f", "e", "a", "t", "u", "r", "e", "/", "x", "_", "1">>,
      <<"r", "e", "f", "s", "/", "p", "u", "l", "l", "/", "4", "2", "/", "m", "e", "r", "g", "e">>,
      <<"f", "i", "x", "/", "i", "s", "s", "u", "e", ".", "7">> }

\* the branch and commit signals of the environment, set and unset
SignalEnvs ==
    { [e EXCEPT !.GITHUB_HEAD_REF = h, !.GITHUB_REF_NAME = r, !.GITHUB_SHA = c] :
        e \in {LocalEnv, CiEnv},
        h \in {<<>>, <<"r", "e", "f", "s", "/", "h", "e", "a", "d", "s", "/", "f", "e", "a", "t", "u", "r", "e", "/", "x", "_", "1">>},
        r \in {<<>>, <<"r", "e", "f", "s", "/", "p", "u", "l", "l", "/", "4", "2", "/", "m", "e", "r", "g", "e">>},
        c \in {<<>>, FullSha} }

CommitCounts == {<<"0">>, <<"7">>, <<"1", "2">>}

DefaultGit ==
    [tags |-> <<<<"v", "1", ".", "0">>>>, count |-> <<"0">>, branch |-> <<"m", "a", "i", "n">>,
     hash |-> <<"a", "b", "c", "d", "e", "f", "1", "2">>]

DefaultGitHub == [tags |-> tagsResponse(DefaultGit.tags), aheadBy |-> <<0>>]

\* the stores tried under generatePackageVersion
PackagePlayStores ==
    { <<>>,
      <<[track |-> "production",
         releases |-> <<[versionCodes |-> <<<<"2">>>>, name |-> <<"1", ".", "0">>]>>]>>,
      <<[track |-> "beta",
         releases |-> <<[versionCodes |-> <<<<"2">>>>, name |-> <<"2", ".", "0">>]>>],
        [track |-> "production",
         releases |-> <<[versionCodes |-> <<<<"a">>, <<"1", "3">>>>, name |-> <<"R", "1">>]>>]>> }

\* options.android of the caller: currentMajorVersion 0 is what the command
\* line passes, the increment may be negative
PackageAndroidOptions ==
    [enabled : {TRUE}, packageName : {"com.example.app"}, serviceAccountKey : {JsonKey},
     track : {"", "beta"}, majorVersionIncrement : {<<>>, <<0 - MaxIncrement>>},
     currentMajorVersion : {0, 7}]
    \cup
    [enabled : {TRUE, FALSE}, packageName : {"com.example.app"}, serviceAccountKey : {""},
     track : {""}, majorVersionIncrement : {<<>>}, currentMajorVersion : {0}]

\* options.ios of the caller: the command line passes '' as appReleaseVersion
PackageIosOptions ==
    [enabled : {TRUE}, apiKeyId : {"test-key-id"}, apiIssuerId : {"test-issuer-id"},
     apiPrivateKey : {"test-private-key"}, bundleId : {"com.example.app"},
     appReleaseVersion : {<<>>, <<"9", ".", "9", ".", "9">>},
     commitHash : {<<>>, <<"d", "e", "a", "d", "b", "e", "e", "f">>}]
    \cup
    [enabled : {TRUE, FALSE}, apiKeyId : {""}, apiIssuerId : {"test-issuer-id"},
     apiPrivateKey : {"test-private-key"}, bundleId : {"com.example.app"},
     appReleaseVersion : {<<>>}, commitHash : {<<>>}]

PackageBuildResponses ==
    {r \in BuildResponses : Len(r.data) <= 1}

(***************************************************************************)
(* Specification                                                           *)
(***************************************************************************)
\* no call of encodeCommitHash on its own
HashIdle ==
    /\ hashes = << <<>>, <<>> >>
    /\ encoded = <<>>

\* no call of cleanBranchName on its own
BranchIdle ==
    /\ branches = <<>>
    /\ cleaned = <<>>

\* no call of isBase64 or parseJSONValue on its own
Base64Idle ==
    /\ candidate = <<>>
    /\ jsonExpected = FALSE
    /\ isBase64Result = <<>>
    /\ parsedValue = [kind |-> "pending", value |-> <<>>, message |-> <<>>]

\* no call of processReleases on its own
ReleasesIdle ==
    /\ releaseList = <<>>
    /\ passedIn = [highestVersionCode |-> 0, majorVersion |-> 0]
    /\ processed = <<>>

\* no call of generateAndWriteVersion
WriteIdle ==
    /\ outputFilePath = <<>>
    /\ fsCalls = <<>>
    /\ written = PackageUnsettled

\* generatePackageVersion has its locals unset
PackageLocals ==
    /\ base = NoBase
    /\ androidVersionCode = <<>>
    /\ execCalls = <<>>
    /\ packageVersion = PackageUnsettled

\* no call of generatePackageVersion
PackageIdle ==
    /\ env = LocalEnv
    /\ git = DefaultGit
    /\ github = DefaultGitHub
    /\ android = <<>>
    /\ ios = <<>>
    /\ pkgPc = "idle"
    /\ PackageLocals

\* the locals of a getAndroidVersionCode call that has not started
AndroidLocals ==
    /\ highestVersionCode = 0
    /\ majorVersion = 0
    /\ editId = 0
    /\ pending = None
    /\ trackError = None
    /\ tracksError = None
    /\ calls = <<>>
    /\ credentialsParsed = FALSE
    /\ warnings = 0
    /\ currentVersionInfo = <<>>
    /\ result = Unsettled

\* the locals of a getIosBuildNumberInfo call that has not started
IosLocals ==
    /\ token = ""
    /\ iosCalls = <<>>
    /\ iosError = None
    /\ iosResult = IosUnsettled

Init ==
    /\ HashIdle /\ BranchIdle /\ Base64Idle /\ ReleasesIdle
    /\ PackageIdle /\ WriteIdle
    /\ pc = "start"
    /\ highestVersionCode = 0
    /\ majorVersion = 0
    /\ editId = 0
    /\ pending = None
    /\ trackError = None
    /\ tracksError = None
    /\ calls = <<>>
    /\ credentialsParsed = FALSE
    /\ warnings = 0
    /\ currentVersionInfo = <<>>
    /\ result = Unsettled
    /\ iosPc = "start"
    /\ token = ""
    /\ iosCalls = <<>>
    /\ iosError = None
    /\ iosResult = IosUnsettled
    /\ \/ /\ tracks \in PlayStores
          /\ options \in EnabledAndroidOptions \cup OtherAndroidOptions
          /\ builds = [shape |-> "undefined", data |-> <<>>]
          /\ iosOptions = IosDisabled
       \/ /\ tracks = <<>>
          /\ options = AndroidDisabled
          /\ builds \in BuildResponses
          /\ iosOptions \in EnabledIosOptions \cup OtherIosOptions

Next ==
    \/ GetAndroidVersionCode
    \/ TrackInsert
    \/ TrackGet
    \/ TrackDelete
    \/ AllInsert
    \/ AllList
    \/ AllDelete
    \/ GetIosBuildNumberInfo
    \/ QueryApi

Spec == Init /\ [][Next]_vars

\* encodeCommitHash called on its own with two commit hashes
HashInit ==
    /\ hashes \in HashPool \X HashPool
    /\ encoded = <<>>
    /\ BranchIdle /\ Base64Idle /\ ReleasesIdle
    /\ PackageIdle /\ WriteIdle
    /\ AndroidLocals /\ pc = "idle" /\ tracks = <<>> /\ options = AndroidDisabled
    /\ IosLocals /\ iosPc = "idle" /\ iosOptions = IosDisabled
    /\ builds = [shape |-> "undefined", data |-> <<>>]

HashNext == EncodeCommitHash

HashSpec == HashInit /\ [][HashNext]_vars

\* a call of generatePackageVersion starts; the counters start when it calls them
PackageStart ==
    /\ HashIdle /\ BranchIdle /\ Base64Idle /\ ReleasesIdle
    /\ PackageLocals /\ pkgPc = "start"
    /\ AndroidLocals /\ pc = "idle" /\ options = AndroidDisabled
    /\ IosLocals /\ iosPc = "idle" /\ iosOptions = IosDisabled
    /\ \/ \* the tags of the repository, read locally and through the API
          /\ env \in {LocalEnv, CiEnv} \cup OtherCiEnvs
          /\ \E tags \in TagLists :
                /\ git = [DefaultGit EXCEPT !.tags = tags]
                /\ github = [DefaultGitHub EXCEPT !.tags = tagsResponse(tags)]
          /\ android = <<>> /\ ios = <<>>
          /\ tracks = <<>> /\ builds = [shape |-> "undefined", data |-> <<>>]
       \/ \* API answers of other shapes
          /\ env = CiEnv
          /\ git = DefaultGit
          /\ github \in [tags : OtherTagsResponses, aheadBy : {<<0>>}]
                       \cup [tags : {DefaultGitHub.tags}, aheadBy : {<<>>}]
          /\ android = <<>> /\ ios = <<>>
          /\ tracks = <<>> /\ builds = [shape |-> "undefined", data |-> <<>>]
       \/ \* commit counts, branch names and the signals of the environment
          /\ env \in SignalEnvs
          /\ git \in [tags : {<<<<"v", "0", "1", ".", "2">>>>}, count : CommitCounts, branch : BranchNames,
                      hash : {DefaultGit.hash}]
          /\ github \in [tags : {tagsResponse(<<<<"v", "0", "1", ".", "2">>>>)},
                         aheadBy : {<<0>>, <<12>>}]
          /\ android = <<>> /\ ios = <<>>
          /\ tracks = <<>> /\ builds = [shape |-> "undefined", data |-> <<>>]
       \/ \* the Android counter requested
          /\ env = LocalEnv
          /\ git \in [tags : {<<<<"v", "2", ".", "1", "0">>>>, <<<<"v", "0", "1", ".", "2">>>>}, count : {<<"7">>},
                      branch : {DefaultGit.branch}, hash : {DefaultGit.hash}]
          /\ github = DefaultGitHub
          /\ android \in {<<o>> : o \in PackageAndroidOptions}
          /\ ios \in {<<>>, <<IosDisabled>>}
          /\ tracks \in PackagePlayStores
          /\ builds = [shape |-> "undefined", data |-> <<>>]
       \/ \* the iOS counter requested
          /\ env = LocalEnv
          /\ git = DefaultGit
          /\ github = DefaultGitHub
          /\ android \in {<<>>, <<AndroidDisabled>>}
          /\ ios \in {<<o>> : o \in PackageIosOptions}
          /\ tracks = <<>>
          /\ builds \in PackageBuildResponses
       \/ \* both counters requested
          /\ env = LocalEnv
          /\ git = [DefaultGit EXCEPT !.tags = <<<<"v", "2", ".", "1", "0">>>>]
          /\ github = DefaultGitHub
          /\ android \in {<<o>> : o \in {a \in PackageAndroidOptions : a.track = ""}}
          /\ ios \in {<<o>> : o \in PackageIosOptions}
          /\ tracks \in PackagePlayStores
          /\ builds \in {r \in PackageBuildResponses : r.shape # "object"}

\* one call of generatePackageVersion
PackageInit == PackageStart /\ WriteIdle

PackageNext ==
    \/ GeneratePackageVersion
    \/ GetCommitCount
    \/ AssembleVersion
    \/ AndroidSettled
    \/ IosSettled
    \/ GetAndroidVersionCode
    \/ TrackInsert
    \/ TrackGet
    \/ TrackDelete
    \/ AllInsert
    \/ AllList
    \/ AllDelete
    \/ GetIosBuildNumberInfo
    \/ QueryApi

PackageSpec == PackageInit /\ [][PackageNext]_vars

\* branch names: with and without a refs/ prefix, with the prefix twice or
\* not at the start, followed by letters, digits and other characters
BranchPrefixes ==
    { <<>>,
      <<"r", "e", "f", "s", "/", "h", "e", "a", "d", "s", "/">>,
      <<"r", "e", "f", "s", "/", "p", "u", "l", "l", "/">>,
      <<"r", "e", "f", "s", "/", "t", "a", "g", "s", "/">>,
      <<"r", "e", "f", "s", "/", "h", "e", "a", "d", "s", "/", "r", "e", "f", "s", "/", "h", "e", "a", "d", "s", "/">>,
      <<"r", "e", "f", "s", "/", "p", "u", "l", "l", "/", "r", "e", "f", "s", "/", "h", "e", "a", "d", "s", "/">>,
      <<"x", "/", "r", "e", "f", "s", "/", "h", "e", "a", "d", "s", "/">> }

BranchTails == UNION {[1..k -> {"a", "Z", "7", "/", "_", "-"}] : k \in 0..MaxBranchTail}

BranchInputs == {prefix \o tail : prefix \in BranchPrefixes, tail \in BranchTails} \cup BranchNames

\* cleanBranchName called on its own
BranchInit ==
    /\ branches \in BranchInputs
    /\ cleaned = <<>>
    /\ HashIdle /\ Base64Idle /\ ReleasesIdle
    /\ PackageIdle /\ WriteIdle
    /\ AndroidLocals /\ pc = "idle" /\ tracks = <<>> /\ options = AndroidDisabled
    /\ IosLocals /\ iosPc = "idle" /\ iosOptions = IosDisabled
    /\ builds = [shape |-> "undefined", data |-> <<>>]

BranchNext == CleanBranchName

BranchSpec == BranchInit /\ [][BranchNext]_vars

\* outputFilePath: not given, relative to dir with and without a directory, absolute
OutputFilePaths ==
    { <<>>,
      <<"v", ".", "j", "s", "o", "n">>,
      <<"o", "u", "t", "/", "v", ".", "j", "s", "o", "n">>,
      <<"/", "t", "m", "p", "/", "v", ".", "j", "s", "o", "n">> }

\* one call of generateAndWriteVersion
WriteInit ==
    /\ PackageStart
    /\ outputFilePath \in OutputFilePaths
    /\ fsCalls = <<>>
    /\ written = PackageUnsettled

WriteNext ==
    \/ GeneratePackageVersion
    \/ GetCommitCount
    \/ AssembleVersion
    \/ AndroidSettled
    \/ IosSettled
    \/ GetAndroidVersionCode
    \/ TrackInsert
    \/ TrackGet
    \/ TrackDelete
    \/ AllInsert
    \/ AllList
    \/ AllDelete
    \/ GetIosBuildNumberInfo
    \/ QueryApi
    \/ GenerateAndWriteVersion

WriteSpec == WriteInit /\ [][WriteNext]_vars

\* the values a caller passes in: nothing found yet, and a maximum found before
PassedIn == [highestVersionCode : {0, 1, 2, 13, 20}, majorVersion : 0..MaxMajor]

\* processReleases called on its own
ReleasesInit ==
    /\ releaseList \in ReleaseLists
    /\ passedIn \in PassedIn
    /\ processed = <<>>
    /\ HashIdle /\ BranchIdle /\ Base64Idle
    /\ PackageIdle /\ WriteIdle
    /\ AndroidLocals /\ pc = "idle" /\ tracks = <<>> /\ options = AndroidDisabled
    /\ IosLocals /\ iosPc = "idle" /\ iosOptions = IosDisabled
    /\ builds = [shape |-> "undefined", data |-> <<>>]

ReleasesNext == ProcessReleases

ReleasesSpec == ReleasesInit /\ [][ReleasesNext]_vars

\* JSON values: objects, arrays and primitives
JsonNumber(text) == JsonValue("number", text, <<>>)
JsonString(text) == JsonValue("string", text, <<>>)
JsonTrue == JsonValue("boolean", <<"t", "r", "u", "e">>, <<>>)
JsonNull == JsonValue("null", <<>>, <<>>)
Member(key, v) == [key |-> key, value |-> v]

JsonObjects ==
    { JsonValue("object", <<>>, <<>>),
      JsonValue("object", <<>>, <<Member(<<"a">>, JsonNumber(<<"1">>))>>),
      JsonValue("object", <<>>,
                <<Member(<<"t", "e", "s", "t">>, JsonString(<<"v", "a", "l", "u", "e">>))>>),
      JsonValue("object", <<>>,
                <<Member(<<"k">>, JsonValue("array", <<>>, <<JsonNumber(<<"1">>), JsonTrue, JsonNull>>)),
                  Member(<<"o">>, JsonValue("object", <<>>,
                                            <<Member(<<"b">>, JsonString(<<"c", " ", "\"">>))>>))>>) }

JsonArrays ==
    { JsonValue("array", <<>>, <<>>),
      JsonValue("array", <<>>, <<JsonNumber(<<"1">>)>>),
      JsonValue("array", <<>>,
                <<JsonValue("object", <<>>, <<Member(<<"a">>, JsonNumber(<<"1">>))>>)>>) }

JsonPrimitives ==
    { JsonTrue, JsonNull, JsonNumber(<<"1", "2", "3">>), JsonNumber(<<"0">>),
      JsonString(<<"h", "i">>) }

JsonValues == JsonObjects \cup JsonArrays \cup JsonPrimitives

\* s with ws after every k characters
InsertEvery(s, k, ws) ==
    [j \in 1..(IF s = <<>> THEN 0 ELSE Len(s) + (Len(s) - 1) \div k) |->
        IF j % (k + 1) = 0 THEN ws ELSE s[j - j \div (k + 1)]]

\* the forms a caller holds the base64 text of a JSON text in: as encoded,
\* broken into lines or groups of up to MaxChunk characters, and in quotes
EncodedForms(text) ==
    UNION { {base64, <<"\"">> \o base64 \o <<"\"">>}
            \cup {InsertEvery(base64, k, ws) : k \in 1..MaxChunk, ws \in {"\n", " "}}
            \cup {Append(InsertEvery(base64, MaxChunk, "\r"), "\n")}
            : base64 \in {Base64Encode(text)} }

\* the forms of the JSON text itself: as written by JSON.stringify and
\* with whitespace around it
DirectForms(text) == {text, <<" ">> \o text \o <<"\n">>}

\* strings that are neither: empty, a lone quote, text, padding only, one
\* and two base64 characters, base64 of text that is not JSON
OtherStrings ==
    { <<>>,
      <<"\"">>,
      <<"=">>,
      <<"A">>,
      <<"A", "A">>,
      <<"a", "b", "c", "d">>,
      <<"=", "=", "=", "=">>,
      <<"a", "b", "=", "c">>,
      <<"1", "e", "+", "5">>,
      <<"n", "o", "t", "-", "b", "a", "s", "e", "6", "4">>,
      <<"{", "\"", "i", "n", "v", "a", "l", "i", "d", "\"", ":", " ", "\"", "j", "s", "o", "n">>,
      <<"{", "\"", "a", "\"", ":", "0", "1", "}">>,
      Base64Encode(<<"h", "e", "l", "l", "o">>),
      Base64Encode(<<"{", "\"", "a", "\"", ":">>) }

Candidates ==
    UNION {EncodedForms(text) \cup DirectForms(text) : text \in {JSONStringify(v) : v \in JsonValues}}
    \cup OtherStrings

\* isBase64 and parseJSONValue called on their own
Base64Init ==
    /\ candidate \in Candidates
    /\ jsonExpected \in BOOLEAN
    /\ isBase64Result = <<>>
    /\ parsedValue = [kind |-> "pending", value |-> <<>>, message |-> <<>>]
    /\ HashIdle /\ BranchIdle /\ ReleasesIdle
    /\ PackageIdle /\ WriteIdle
    /\ AndroidLocals /\ pc = "idle" /\ tracks = <<>> /\ options = AndroidDisabled
    /\ IosLocals /\ iosPc = "idle" /\ iosOptions = IosDisabled
    /\ builds = [shape |-> "undefined", data |-> <<>>]

Base64Next ==
    \/ IsBase64
    \/ ParseJSONValue

Base64Spec == Base64Init /\ [][Base64Next]_vars

TypeOK ==
    /\ pc \in {"idle", "start", "trackInsert", "trackGet", "trackDelete", "allInsert",
               "allList", "allDelete", "done"}
    /\ iosPc \in {"idle", "start", "queryApi", "done"}
    /\ pkgPc \in {"idle", "start", "commitCount", "assemble", "android", "ios", "done"}
    /\ highestVersionCode \in Nat
    /\ majorVersion \in Nat
    /\ result.kind \in {"pending", "value", "error"}
    /\ iosResult.kind \in {"pending", "value", "error"}

(***************************************************************************)
(* Properties of the Android version code                                  *)
(***************************************************************************)
\* the call got past the option checks and the key decoding
Queried ==
    /\ options.enabled
    /\ options.packageName # "" /\ options.serviceAccountKey # ""
    /\ credentialsParse(options.serviceAccountKey)

\* every edit creation and every read answered (deletes aside)
QueriesOk == \A i \in 1..Len(calls) : calls[i].op # "delete" => calls[i].outcome = "ok"

GetOk == \E i \in CallsOf("get") : calls[i].outcome = "ok"
ListOk == \E i \in CallsOf("list") : calls[i].outcome = "ok"
DeleteRejected == \E i \in CallsOf("delete") : calls[i].outcome = "error"

ReleasesOfTrack(name) ==
    IF TrackNamed(name) = {} THEN <<>>
    ELSE tracks[CHOOSE i \in TrackNamed(name) : TRUE].releases

\* the integers parseInt reads out of the version codes of a release
CodesOfRelease(release) ==
    { ParseInt(release.versionCodes[j]).val :
        j \in {k \in 1..Len(release.versionCodes) : ~ParseInt(release.versionCodes[k]).nan} }

CodesOf(releases) == UNION {CodesOfRelease(releases[i]) : i \in 1..Len(releases)}

PublishedCodes == UNION {CodesOf(tracks[t].releases) : t \in 1..Len(tracks)}

\* options.track names a track holding a release with a readable version code
TrackHasVersionCode ==
    /\ options.track # ""
    /\ \E c \in CodesOf(ReleasesOfTrack(options.track)) : c > 0

ConsideredCodes ==
    IF TrackHasVersionCode THEN CodesOf(ReleasesOfTrack(options.track)) ELSE PublishedCodes

IncrementGiven ==
    options.majorVersionIncrement = <<>> \/ options.majorVersionIncrement[1] > 0

C3_QueryFailureRejects ==
    \A i \in 1..Len(calls) :
        (pc = "done" /\ calls[i].op \in {"insert", "get", "list"} /\ calls[i].outcome = "error")
            => /\ result.kind = "error"
               /\ result.message # <<>>
               /\ result.message[1] = AndroidErrorPrefix
               /\ result.message[Len(result.message)] \in {InsertFailed, GetFailed, ListFailed}

\* C4: whenever control is outside the two try/finally blocks, every edit
\* that was created has had a delete issued for that same edit id.
C4_EditsDeleted ==
    pc \in {"start", "trackInsert", "allInsert", "done"}
        => \A i \in CallsOf("insert") :
              calls[i].outcome = "ok"
                  => \E j \in CallsOf("delete") : j > i /\ calls[j].editId = calls[i].editId

C4_Witness ==
    /\ pc = "done"
    /\ \E i \in CallsOf("get") : calls[i].outcome = "error"
    /\ \E i \in CallsOf("list") : calls[i].outcome = "error"
    /\ Cardinality(CallsOf("delete")) = 2

\* what the reads that answered yield, whatever the deletes did
DerivedFromReads ==
    LET afterTrack == IF GetOk /\ ReleasesOfTrack(options.track) # <<>>
                      THEN processReleases(ReleasesOfTrack(options.track), 0, 0)
                      ELSE [highestVersionCode |-> 0, majorVersion |-> 0]
    IN  IF ListOk THEN processAllTracks(tracks, afterTrack) ELSE afterTrack

\* C5: a rejected edit delete never changes the outcome of the read before
\* it: the data of a read that answered is still what the result is derived
\* from, and the error a failed read leaves behind is the read's error, never
\* the delete's.
C5_DeleteFailureNeutral ==
    (pc = "done" /\ DeleteRejected)
        => /\ trackError # DeleteFailed /\ tracksError # DeleteFailed
           /\ GetOk => trackError = None
           /\ ListOk => tracksError = None
           /\ \A i \in CallsOf("get") :
                 /\ calls[i].outcome = "error" => trackError = GetFailed
                 /\ calls[i].outcome = "notfound" => trackError = TrackNotFound
           /\ \A i \in CallsOf("list") : calls[i].outcome = "error" => tracksError = ListFailed
           /\ highestVersionCode = DerivedFromReads.highestVersionCode
           /\ majorVersion = DerivedFromReads.majorVersion
           /\ currentVersionInfo = versionInfoOf(highestVersionCode, majorVersion)
           /\ result.kind = "value"
           /\ warnings = Cardinality({i \in CallsOf("delete") : calls[i].outcome = "error"})

C5_Witness ==
    /\ pc = "done"
    /\ \E i \in CallsOf("get") :
          /\ calls[i].outcome = "ok"
          /\ calls[i + 1].op = "delete" /\ calls[i + 1].outcome = "error"
    /\ \E i \in CallsOf("list") :
          /\ calls[i].outcome = "error"
          /\ calls[i + 1].op = "delete" /\ calls[i + 1].outcome = "error"
    /\ tracksError = ListFailed

\* the requests of the all-tracks block
AllTracksInserts ==
    {i \in CallsOf("insert") : options.track = "" \/ \E j \in CallsOf("insert") : j < i}

HoldersOf(c) ==
    {tr \in UNION {{<<t, r>> : r \in 1..Len(tracks[t].releases)} : t \in 1..Len(tracks)} :
        c \in CodesOfRelease(tracks[tr[1]].releases[tr[2]])}

NameOf(tr) == tracks[tr[1]].releases[tr[2]].name

\* C7: when several releases carry the identical maximum version code under
\* names with different major versions, the major version recorded for the
\* maximum is the largest of them, whatever the order of the tracks.
C7_TieKeepsLargerMajor ==
    (pc = "done" /\ Queried /\ QueriesOk /\ options.track = "" /\ currentVersionInfo # <<>>)
        => LET holders == HoldersOf(currentVersionInfo[1].versionCode)
           IN  (\A tr \in holders : VersionMatch(NameOf(tr)) # <<>>)
                  => currentVersionInfo[1].majorVersion
                       = Max({ParseInt(VersionMatch(NameOf(tr))).val : tr \in holders})

\* the version codes of the releases returned by the reads that answered
ReadCodes ==
    (IF GetOk THEN CodesOf(ReleasesOfTrack(options.track)) ELSE {})
    \cup (IF ListOk THEN PublishedCodes ELSE {})

\* C8: the highest version code found is the maximum of the readable version
\* codes of the releases read; unreadable version codes and releases without
\* version codes are skipped without an error, and with no readable version
\* code at all the call returns exactly 1.
C8_HighestIsMaximum ==
    (pc = "done" /\ Queried /\ QueriesOk)
        => /\ result.kind = "value"
           /\ IF ReadCodes = {}
              THEN currentVersionInfo = <<>> /\ result.value = 1
              ELSE /\ currentVersionInfo # <<>>
                   /\ currentVersionInfo[1].versionCode = Max(ReadCodes)

C8_Witness ==
    /\ pc = "done" /\ Queried /\ QueriesOk /\ ListOk
    /\ \E t \in 1..Len(tracks) : \E r \in 1..Len(tracks[t].releases) :
          /\ Len(tracks[t].releases[r].versionCodes) = 2
          /\ ParseInt(tracks[t].releases[r].versionCodes[1]).nan
    /\ \E t \in 1..Len(tracks) : \E r \in 1..Len(tracks[t].releases) :
          tracks[t].releases[r].versionCodes = <<>>
    /\ currentVersionInfo # <<>>
    /\ currentVersionInfo[1].versionCode = 13

(***************************************************************************)
(* Properties of both counters                                             *)
(***************************************************************************)
\* C9: with options.enabled falsy getAndroidVersionCode returns 0 and
\* getIosBuildNumberInfo returns {buildNumber: 0, buildVersion: "0"}, and
\* neither decodes a credential, generates a token or queries a platform,
\* whatever the other options hold.
C9_DisabledDoesNothing ==
    /\ (pc = "done" /\ ~options.enabled)
          => /\ result = Value(0)
             /\ calls = <<>>
             /\ ~credentialsParsed
    /\ (iosPc = "done" /\ ~iosOptions.enabled)
          => /\ iosResult.kind = "value"
             /\ iosResult.info.buildNumber = 0
             /\ iosResult.info.buildVersion = <<"0">>
             /\ iosResult.info.encodedCommitHash = <<>>
             /\ iosCalls = <<>>
             /\ token = ""

C9_Witness ==
    /\ pc = "done" /\ iosPc = "done"
    /\ ~options.enabled /\ ~iosOptions.enabled
    /\ options.packageName # "" /\ options.serviceAccountKey = GarbageKey /\ options.track # ""
    /\ result = Value(0) /\ iosResult.info.buildVersion = <<"0">>

(***************************************************************************)
(* Properties of the iOS build number                                      *)
(***************************************************************************)
\* the build numbers parseInt reads out of the records of the release version
MatchingBuildNumbers ==
    { ParseInt(builds.data[i].buildNumber).val :
        i \in {k \in 1..Len(builds.data) :
                 /\ builds.data[k].hasAttributes
                 /\ builds.data[k].version = iosOptions.appReleaseVersion
                 /\ ~ParseInt(builds.data[k].buildNumber).nan} }

\* C10: the next build number is 1 + the maximum readable buildNumber among
\* the records whose version equals appReleaseVersion, 1 when there is no
\* such record, and so strictly greater than every build number of that
\* release version.
C10_NextBuildNumber ==
    (iosPc = "done" /\ iosOptions.enabled /\ iosResult.kind = "value")
        => /\ iosResult.info.buildNumber =
                IF MatchingBuildNumbers = {} THEN 1 ELSE 1 + Max(MatchingBuildNumbers)
           /\ \A n \in MatchingBuildNumbers : iosResult.info.buildNumber > n

C10_Witness ==
    /\ iosPc = "done" /\ iosOptions.enabled /\ iosResult.kind = "value"
    /\ Len(builds.data) = 3
    /\ \E i \in 1..3 : builds.data[i].hasAttributes /\ builds.data[i].version = <<"1", ".", "1", ".", "0">>
    /\ \E i \in 1..3 : builds.data[i].buildNumber = <<"x">>
    /\ iosResult.info.buildNumber = 6

\* the required options of the iOS call that are missing or empty
MissingIosOptionNames ==
    {f \in {"apiKeyId", "apiIssuerId", "apiPrivateKey", "bundleId"} : iosOptions[f] = ""}
    \cup (IF iosOptions.appReleaseVersion = <<>> THEN {"appReleaseVersion"} ELSE {})

\* the executor methods the iOS call invoked
IosOps == {iosCalls[i].op : i \in 1..Len(iosCalls)}

C12_MissingIosOptionRejects ==
    (iosPc = "done" /\ iosOptions.enabled /\ MissingIosOptionNames # {})
        => /\ iosResult.kind = "error"
           /\ OptionsNamedIn(iosResult.message[Len(iosResult.message)]) = RequiredIosOptions
           /\ iosCalls = <<>>
           /\ token = ""

C12_Witness ==
    /\ iosPc = "done" /\ iosOptions.enabled
    /\ MissingIosOptionNames = {"appReleaseVersion"}
    /\ iosResult.kind = "error"
    /\ iosCalls = <<>>

\* the decimal numerals of a build version, split at the dots
NumeralsOf(buildVersion) ==
    LET parts == Split(buildVersion, ".")
    IN  IF \A i \in 1..Len(parts) : parts[i] # <<>> /\ DigitPrefix(parts[i]) = parts[i]
        THEN [i \in 1..Len(parts) |-> DecimalValue(parts[i])]
        ELSE <<>>

\* C13: in the result of an enabled, successful getIosBuildNumberInfo call
\* buildNumber is the computed next build number; with options.commitHash
\* given, encodedCommitHash is present and buildVersion is the decimal
\* buildNumber, a dot and the decimal encodedCommitHash; without it,
\* encodedCommitHash is absent and buildVersion is the decimal buildNumber.
C13_BuildVersionComposition ==
    (iosPc = "done" /\ iosOptions.enabled /\ iosResult.kind = "value")
        => LET info == iosResult.info
           IN  /\ info.buildNumber =
                     IF MatchingBuildNumbers = {} THEN 1 ELSE 1 + Max(MatchingBuildNumbers)
               /\ IF iosOptions.commitHash # <<>>
                  THEN /\ info.encodedCommitHash # <<>>
                       /\ ~info.encodedCommitHash[1].nan
                       /\ NumeralsOf(info.buildVersion)
                            = <<info.buildNumber, info.encodedCommitHash[1].val>>
                       /\ info.buildVersion = ToString(info.buildNumber) \o <<".">>
                                                \o ToString(info.encodedCommitHash[1].val)
                  ELSE /\ info.encodedCommitHash = <<>>
                       /\ NumeralsOf(info.buildVersion) = <<info.buildNumber>>
                       /\ info.buildVersion = ToString(info.buildNumber)

C13_Witness ==
    /\ iosPc = "done" /\ iosOptions.enabled /\ iosResult.kind = "value"
    /\ iosOptions.commitHash = <<"f", "f", "f", "f", "f", "f", "f", "f">>
    /\ iosResult.info.buildNumber = 6
    /\ iosResult.info.encodedCommitHash = <<[nan |-> FALSE, val |-> 1]>>
    /\ iosResult.info.buildVersion = <<"6", ".", "1">>

(***************************************************************************)
(* Properties of encodeCommitHash                                          *)
(***************************************************************************)
RECURSIVE HexNumber(_)
\* the number fewer than 8 hexadecimal digits denote
HexNumber(hs) ==
    IF hs = <<>> THEN 0
    ELSE 16 * HexNumber(SubSeq(hs, 1, Len(hs) - 1)) + HexValue(hs[Len(hs)])

\* the first 8 characters of a hash (all of it when it is shorter)
First8(h) == SubSeq(h, 1, IF Len(h) < 8 THEN Len(h) ELSE 8)

\* the value of the first 8 hexadecimal digits modulo 2147483647, from the
\* top bit q and the low 31 bits r of the value: 2^31 leaves the remainder 1
First8Mod(h) ==
    LET s == First8(h)
    IN  IF Len(s) < 8 THEN HexNumber(s)
        ELSE LET q == HexValue(s[1]) \div 8
                 r == (HexValue(s[1]) % 8) * 268435456 + HexNumber(SubSeq(s, 2, 8))
             IN  IF r = 2147483647 THEN q ELSE (q + r) % 2147483647

\* the hash the i-th call of encodeCommitHash was given
HashOfCall(i) == hashes[IF i = 2 THEN 2 ELSE 1]

\* C14: for commit hashes of hexadecimal characters encodeCommitHash depends
\* only on the first 8 characters, returns the same value on every call with
\* the same hash, and returns a non-negative integer of at most 2147483647:
\* the value of the first 8 hexadecimal digits modulo 2147483647.
C14_EncodeCommitHash ==
    /\ \A i \in 1..Len(encoded) :
          /\ ~encoded[i].nan
          /\ encoded[i].val >= 0 /\ encoded[i].val <= 2147483647
          /\ encoded[i].val = First8Mod(HashOfCall(i))
    /\ (Len(encoded) >= 2 /\ First8(hashes[1]) = First8(hashes[2]))
          => encoded[1] = encoded[2]
    /\ Len(encoded) = 3 => encoded[3] = encoded[1]

C14_Witness ==
    /\ Len(encoded) = 3
    /\ hashes[1] # hashes[2]
    /\ Len(hashes[1]) > 8 /\ Len(hashes[2]) > 8
    /\ First8(hashes[1]) = <<"f", "f", "f", "f", "f", "f", "f", "f">> /\ First8(hashes[2]) = <<"f", "f", "f", "f", "f", "f", "f", "f">>
    /\ encoded[1].val = 1 /\ encoded[2].val = 1

\* C15: encodeCommitHash maps any two different 8-hexadecimal-character
\* commit hash prefixes to different integers, so that the prefix can be
\* recovered from the encoded value.
C15_DistinctPrefixesDistinctCodes ==
    (/\ Len(encoded) >= 2
     /\ Len(hashes[1]) >= 8 /\ Len(hashes[2]) >= 8
     /\ First8(hashes[1]) # First8(hashes[2]))
        => encoded[1].val # encoded[2].val

(***************************************************************************)
(* Properties of generatePackageVersion                                    *)
(***************************************************************************)
AndroidRequested == android # <<>> /\ android[1].enabled
IosRequested == ios # <<>> /\ ios[1].enabled

Returned == pkgPc = "done" /\ packageVersion.kind = "value"

\* the counter functions have settled with a number that is not positive
AndroidCounterUnusable ==
    AndroidRequested /\ pc = "done" /\ result.kind = "value" /\ result.value <= 0
IosCounterUnusable ==
    /\ IosRequested /\ iosPc = "done" /\ iosResult.kind = "value"
    /\ iosResult.info.buildNumber <= 0

\* C16: when a platform is enabled and its counter function returns a value
\* <= 0, generatePackageVersion fails with the invalid-counter error of that
\* platform; a VersionInfo it returns never lacks a requested counter and
\* never holds one that is not positive.
C16_UnusableCounterFails ==
    /\ (pkgPc = "done" /\ AndroidCounterUnusable)
          => /\ packageVersion.kind = "error"
             /\ packageVersion.message = <<InvalidVersionCode>>
    /\ (pkgPc = "done" /\ IosCounterUnusable)
          => /\ packageVersion.kind = "error"
             /\ packageVersion.message = <<InvalidBuildNumber>>
    /\ Returned =>
          /\ AndroidRequested =>
                /\ packageVersion.info.androidVersionCode # <<>>
                /\ packageVersion.info.androidVersionCode[1] > 0
          /\ IosRequested =>
                /\ packageVersion.info.iosBuildNumber # <<>>
                /\ packageVersion.info.iosBuildNumber[1] > 0

C16_Witness ==
    /\ pkgPc = "done"
    /\ AndroidCounterUnusable
    /\ packageVersion.message = <<InvalidVersionCode>>

\* C17: in every VersionInfo generatePackageVersion returns,
\* androidVersionCode is present, and then a positive integer, if and only
\* if android.enabled was truthy, and iosBuildNumber and iosBuildNumberString
\* are present if and only if ios.enabled was truthy.
C17_CountersPresentIffEnabled ==
    Returned =>
        /\ packageVersion.info.androidVersionCode # <<>> <=> AndroidRequested
        /\ packageVersion.info.androidVersionCode # <<>>
              => packageVersion.info.androidVersionCode[1] > 0
        /\ packageVersion.info.iosBuildNumber # <<>> <=> IosRequested
        /\ packageVersion.info.iosBuildNumberString # <<>> <=> IosRequested

C17_Witness ==
    /\ Returned
    /\ AndroidRequested
    /\ ios = <<IosDisabled>>
    /\ packageVersion.info.androidVersionCode # <<>>
    /\ packageVersion.info.iosBuildNumber = <<>>
    /\ packageVersion.info.iosBuildNumberString = <<>>

\* C18: generatePackageVersion calls the Android counter with the caller's
\* options and currentMajorVersion equal to the integer value of the major
\* it computed, and the iOS counter with the caller's options and the
\* appReleaseVersion and commitHash it computed, whatever the caller gave
\* for these three fields.
C18_CountersCalledWithBaseValues ==
    /\ pc # "idle" =>
          /\ AndroidRequested
          /\ options.currentMajorVersion = DecimalValue(base.major)
          /\ [options EXCEPT !.currentMajorVersion = 0]
                = [android[1] EXCEPT !.currentMajorVersion = 0]
    /\ iosPc # "idle" =>
          /\ IosRequested
          /\ iosOptions.appReleaseVersion = base.appReleaseVersion
          /\ iosOptions.commitHash = base.commitHash
          /\ base.appReleaseVersion # <<>> /\ Len(base.commitHash) = 8
          /\ [iosOptions EXCEPT !.appReleaseVersion = <<>>, !.commitHash = <<>>]
                = [ios[1] EXCEPT !.appReleaseVersion = <<>>, !.commitHash = <<>>]
    /\ Returned =>
          /\ packageVersion.info.appReleaseVersion = base.appReleaseVersion
          /\ packageVersion.info.commitHash = base.commitHash
          /\ packageVersion.info.major = base.major

C18_Witness ==
    /\ pc # "idle" /\ iosPc # "idle"
    /\ android[1].currentMajorVersion = 7
    /\ options.currentMajorVersion = 2
    /\ ios[1].appReleaseVersion = <<"9", ".", "9", ".", "9">>
    /\ ios[1].commitHash = <<"d", "e", "a", "d", "b", "e", "e", "f">>
    /\ iosOptions.appReleaseVersion = <<"2", ".", "1", "0", ".", "0">>
    /\ iosOptions.commitHash = <<"a", "b", "c", "d", "e", "f", "1", "2">>

\* the commit count the repository or the API reports
ReportedCommitCount ==
    IF env.GITHUB_ACTIONS = "true" THEN github.aheadBy[1] ELSE DecimalValue(git.count)

\* a decimal numeral as toString writes it
IsNumeral(s) ==
    /\ s # <<>>
    /\ \A i \in 1..Len(s) : IsDigit(s[i])
    /\ Len(s) > 1 => s[1] # "0"

\* C19: for a selected tag v<major>.<minor> and a non-negative commit count,
\* generatePackageVersion returns major and minor as the two components of
\* the tag as written (leading zeros kept), patch equal to the commit count,
\* appReleaseVersion equal to major.minor.patch, and version equal to
\* appReleaseVersion, a hyphen, the sanitized branch name, a dot and the
\* 8-character commit hash.
C19_BaseVersionAssembly ==
    Returned =>
        LET info == packageVersion.info
            release == Split(info.appReleaseVersion, ".")
        IN  /\ <<"v">> \o info.major \o <<".">> \o info.minor = base.tag
            /\ \A i \in 1..Len(info.major) : IsDigit(info.major[i])
            /\ \A i \in 1..Len(info.minor) : IsDigit(info.minor[i])
            /\ ~info.patch.nan /\ info.patch.val = ReportedCommitCount
            /\ Len(release) = 3
            /\ release[1] = info.major /\ release[2] = info.minor
            /\ IsNumeral(release[3]) /\ DecimalValue(release[3]) = info.patch.val
            /\ \A i \in 1..Len(info.branchName) :
                  IsAlphanumeric(info.branchName[i]) \/ info.branchName[i] = "-"
            /\ Len(info.commitHash) = 8
            /\ info.version = info.appReleaseVersion \o <<"-">> \o info.branchName
                                 \o <<".">> \o info.commitHash

C19_Witness ==
    /\ Returned
    /\ base.tag = <<"v", "0", "1", ".", "2">>
    /\ packageVersion.info.major = <<"0", "1">>
    /\ packageVersion.info.patch.val = 12
    /\ packageVersion.info.version =
          <<"0", "1", ".", "2", ".", "1", "2", "-", "f", "e", "a", "t", "u", "r", "e", "-",
            "x", "-", "1", ".", "a", "b", "c", "d", "e", "f", "1", "2">>

\* the tag names in the order of their source: the git output locally, the
\* API response in CI; an entry that is no string has no name
SourceTags ==
    IF env.GITHUB_ACTIONS = "true"
    THEN IF github.tags.shape = "array"
         THEN [i \in 1..Len(github.tags.data) |->
                  IF github.tags.data[i].isString THEN github.tags.data[i].name ELSE <<>>]
         ELSE <<>>
    ELSE git.tags

\* exactly v<digits>.<digits>
IsVersionTag(t) ==
    \E i \in 3..(Len(t) - 1) :
        /\ t[1] = "v" /\ t[i] = "."
        /\ \A j \in (2..Len(t)) \ {i} : IsDigit(t[j])

VersionTagPositions == {i \in 1..Len(SourceTags) : IsVersionTag(SourceTags[i])}

FirstVersionTag ==
    SourceTags[CHOOSE i \in VersionTagPositions : \A j \in VersionTagPositions : i <= j]

\* git, the API or the CI environment failed before any tag was read
TagSourceFailed ==
    /\ packageVersion.kind = "error"
    /\ \E k \in 1..Len(packageVersion.message) :
          packageVersion.message[k] \in {GitFailed, GitHubFailed, MissingGitHubEnv}

\* C20: locally and through the API getLatestTag returns the first tag in
\* source order that is exactly v<digits>.<digits>; a tag of another shape
\* (v1, v1.2.3, release-1.0) is never returned, also when it precedes a valid
\* tag, and when no tag matches the call fails without returning a tag.
C20_FirstVersionTagSelected ==
    pkgPc # "start" =>
        /\ base.tag # <<>> =>
              /\ VersionTagPositions # {}
              /\ base.tag = FirstVersionTag
        /\ VersionTagPositions = {} =>
              /\ base.tag = <<>>
              /\ pkgPc = "done" /\ packageVersion.kind = "error"
        /\ (VersionTagPositions # {} /\ base.tag = <<>>) => TagSourceFailed

C20_Witness ==
    /\ pkgPc # "start"
    /\ env.GITHUB_ACTIONS = "true"
    /\ Len(SourceTags) = 2
    /\ SourceTags[1] = <<"v", "1", ".", "2", ".", "3">>
    /\ base.tag = SourceTags[2]
    /\ base.tag = <<"v", "0", "1", ".", "2">>

CiSignal == env.GITHUB_ACTIONS = "true"

RepositoryKnown ==
    /\ env.GITHUB_REPOSITORY_OWNER # ""
    /\ \E i \in 1..(Len(env.GITHUB_REPOSITORY) - 1) : env.GITHUB_REPOSITORY[i] = "/"

LocalTagOrCountQuery(c) == c \in {"git tag", "git rev-list"}
RemoteQuery(c) == c \in {"getGitHubData tags", "getGitHubData compare"}

FailedWith(text) ==
    /\ pkgPc = "done" /\ packageVersion.kind = "error"
    /\ \E k \in 1..Len(packageVersion.message) : packageVersion.message[k] = text

\* C21: with GITHUB_ACTIONS equal to 'true', getLatestTag and getCommitCount
\* ask only the GitHub API: no git tag and no git rev-list command runs, also
\* when the API call fails or owner, repository or commit are missing, and
\* the call then fails; without the signal only the git commands run and the
\* API is not called.
C21_CiUsesOnlyRemoteApi ==
    /\ CiSignal =>
          /\ \A i \in 1..Len(execCalls) : ~LocalTagOrCountQuery(execCalls[i])
          /\ (pkgPc # "start" /\ RepositoryKnown) => execCalls[1] = "getGitHubData tags"
          /\ (pkgPc # "start" /\ ~RepositoryKnown) => FailedWith(MissingGitHubEnv) /\ execCalls = <<>>
          /\ (pkgPc \notin {"start", "commitCount"} /\ base.tag # <<>> /\ env.GITHUB_SHA = <<>>)
                => FailedWith(MissingGitHubEnv) /\ execCalls = <<"getGitHubData tags">>
          /\ (pkgPc \notin {"start", "commitCount"} /\ base.tag # <<>> /\ env.GITHUB_SHA # <<>>)
                => execCalls[2] = "getGitHubData compare"
    /\ ~CiSignal =>
          /\ \A i \in 1..Len(execCalls) : ~RemoteQuery(execCalls[i])
          /\ pkgPc # "start" => execCalls[1] = "git tag"
          /\ (pkgPc \notin {"start", "commitCount"} /\ base.tag # <<>>)
                => execCalls[2] = "git rev-list"

C21_Witness ==
    /\ CiSignal
    /\ FailedWith(GitHubFailed)
    /\ base.tag # <<>>
    /\ execCalls = <<"getGitHubData tags", "getGitHubData compare">>

\* the signals of the environment and the answers of git the call started with
HeadRefSet == env.GITHUB_HEAD_REF # <<>>
RefNameSet == env.GITHUB_REF_NAME # <<>>
FullHashSet == env.GITHUB_SHA # <<>>

Assembled == pkgPc \in {"android", "ios"} \/ Returned

BranchQueried == \E i \in 1..Len(execCalls) : execCalls[i] = "git rev-parse --abbrev-ref"
HashQueried == \E i \in 1..Len(execCalls) : execCalls[i] = "git rev-parse --short"

\* C22: getCurrentBranch returns the head-ref signal when set, else the
\* ref-name signal when set, else the answer of git, and git is asked only
\* when neither is set; getShortCommitHash returns the first 8 characters of
\* GITHUB_SHA when set and asks git only when it is not set.
C22_SignalPrecedence ==
    /\ BranchQueried => ~HeadRefSet /\ ~RefNameSet
    /\ HashQueried => ~FullHashSet
    /\ Assembled =>
          /\ HeadRefSet => base.branchName = cleanBranchName(env.GITHUB_HEAD_REF)
          /\ (~HeadRefSet /\ RefNameSet) => base.branchName = cleanBranchName(env.GITHUB_REF_NAME)
          /\ (~HeadRefSet /\ ~RefNameSet)
                => BranchQueried /\ base.branchName = cleanBranchName(git.branch)
          /\ FullHashSet =>
                /\ Len(base.commitHash) = 8
                /\ \A i \in 1..8 : base.commitHash[i] = env.GITHUB_SHA[i]
          /\ ~FullHashSet => HashQueried /\ base.commitHash = git.hash

C22_Witness ==
    /\ Assembled
    /\ HeadRefSet /\ RefNameSet /\ FullHashSet
    /\ cleanBranchName(env.GITHUB_HEAD_REF) # cleanBranchName(env.GITHUB_REF_NAME)
    /\ base.branchName = <<"f", "e", "a", "t", "u", "r", "e", "-", "x", "-", "1">>
    /\ Len(env.GITHUB_SHA) > 8
    /\ execCalls = <<"git tag", "git rev-list">>

(***************************************************************************)
(* Properties of cleanBranchName                                           *)
(***************************************************************************)
\* the length of the refs/heads/ or refs/pull/ prefix a name starts with
LeadingRefsLength(x) ==
    IF Len(x) >= 11 /\ SubSeq(x, 1, 11) = <<"r", "e", "f", "s", "/", "h", "e", "a", "d", "s", "/">>
    THEN 11
    ELSE IF Len(x) >= 10 /\ SubSeq(x, 1, 10) = <<"r", "e", "f", "s", "/", "p", "u", "l", "l", "/">>
    THEN 10
    ELSE 0

BranchCharacters == LowerCase \cup UpperCase \cup {"0", "1", "2", "3", "4", "5", "6", "7", "8", "9"}

\* C23: cleanBranchName strips one leading refs/heads/ or refs/pull/ and
\* replaces every character outside [A-Za-z0-9] by '-' one for one, so the
\* output holds only [A-Za-z0-9-]; applied to its own output it returns it
\* unchanged.
C23_CleanBranchName ==
    /\ Len(cleaned) >= 1 =>
          LET k == LeadingRefsLength(branches)
          IN  /\ Len(cleaned[1]) = Len(branches) - k
              /\ \A i \in 1..Len(cleaned[1]) :
                    cleaned[1][i] = IF branches[i + k] \in BranchCharacters
                                    THEN branches[i + k] ELSE "-"
    /\ Len(cleaned) = 2 => cleaned[2] = cleaned[1]

C23_Witness ==
    /\ Len(cleaned) = 2
    /\ branches = <<"r", "e", "f", "s", "/", "h", "e", "a", "d", "s", "/", "r", "e", "f", "s", "/", "h", "e", "a", "d", "s", "/", "_", "/">>
    /\ cleaned[1] = <<"r", "e", "f", "s", "-", "h", "e", "a", "d", "s", "-", "-", "-">>
    /\ cleaned[2] = cleaned[1]

(***************************************************************************)
(* Properties of processReleases                                           *)
(***************************************************************************)
RECURSIVE CodesInOrder(_)
\* the version codes of the releases in the order the loops visit them, each
\* with the name of its release
CodesInOrder(rs) ==
    IF rs = <<>> THEN <<>>
    ELSE [j \in 1..Len(Head(rs).versionCodes) |->
             [code |-> ParseInt(Head(rs).versionCodes[j]), name |-> Head(rs).name]]
         \o CodesInOrder(Tail(rs))

\* the positions where a version code is strictly higher than the value
\* passed in and than every version code before it
NewMaxima ==
    LET cs == CodesInOrder(releaseList)
    IN  {i \in 1..Len(cs) :
            /\ ~cs[i].code.nan
            /\ cs[i].code.val > passedIn.highestVersionCode
            /\ \A j \in 1..(i - 1) : ~cs[j].code.nan => cs[j].code.val < cs[i].code.val}

\* the name starts with digits followed by a dot
HasLeadingMajor(name) ==
    \E k \in 1..(Len(name) - 1) :
        /\ \A i \in 1..k : IsDigit(name[i])
        /\ name[k + 1] = "."

LeadingMajor(name) ==
    DecimalValue(SubSeq(name, 1, (CHOOSE k \in 1..Len(name) : name[k] = ".") - 1))

\* C28: the major version processReleases returns is the one passed in unless
\* a strictly higher version code was found under a name that starts with
\* digits and a dot, and then it is the leading number of the last such name;
\* a new maximum under a release without such a name keeps what was recorded
\* before. The highest version code returned is never below the one passed in.
C28_MajorFollowsNewMaximum ==
    processed # <<>> =>
        LET cs == CodesInOrder(releaseList)
            named == {i \in NewMaxima : HasLeadingMajor(cs[i].name)}
        IN  /\ processed[1].highestVersionCode >= passedIn.highestVersionCode
            /\ NewMaxima = {} => processed[1] = passedIn
            /\ NewMaxima # {} => processed[1].highestVersionCode = cs[Max(NewMaxima)].code.val
            /\ named = {} => processed[1].majorVersion = passedIn.majorVersion
            /\ named # {} => processed[1].majorVersion = LeadingMajor(cs[Max(named)].name)

C28_Witness ==
    /\ processed # <<>>
    /\ passedIn = [highestVersionCode |-> 1, majorVersion |-> 1]
    /\ Len(releaseList) = 2
    /\ releaseList[1].name = <<"2", ".", "0">>
    /\ releaseList[2].name = <<"R", "1">>
    /\ processed[1] = [highestVersionCode |-> 13, majorVersion |-> 2]

(***************************************************************************)
(* Order of the Android Publisher requests                                 *)
(***************************************************************************)
CreatedEdits == {i \in CallsOf("insert") : calls[i].outcome = "ok"}

\* the edits created and not deleted: no delete was issued for them, or the
\* delete was rejected
EditsLeftOpen ==
    {i \in CreatedEdits :
        ~\E j \in CallsOf("delete") :
            j > i /\ calls[j].editId = calls[i].editId /\ calls[j].outcome = "ok"}

\* the edits created for which no delete has settled yet
EditsInUse ==
    {i \in CreatedEdits :
        ~\E j \in CallsOf("delete") : j > i /\ calls[j].editId = calls[i].editId}

\* every read follows the creation of the edit whose id it carries, and
\* every delete follows the read of its edit
RequestsInOrder ==
    \A i \in 1..Len(calls) :
        /\ calls[i].op \in {"get", "list"} =>
              /\ i > 1 /\ (i - 1) \in CreatedEdits
              /\ calls[i].editId # 0 /\ calls[i].editId = calls[i - 1].editId
        /\ calls[i].op = "delete" =>
              /\ i > 2 /\ calls[i - 1].op \in {"get", "list"}
              /\ calls[i].editId = calls[i - 1].editId
        /\ calls[i].op = "list" => \A j \in CallsOf("get") : j < i - 2
        /\ calls[i].op = "get" => options.track # "" /\ i = 2

\* C29 as stated: at most one edit is open at any time: the edit of the
\* track-specific read is deleted before the edit of the all-tracks fallback
\* is created.
C29_OneEditOpen ==
    \A i \in CreatedEdits : \A k \in EditsLeftOpen : k >= i

\* C29 amended: the requests are strictly sequential and at most one edit is
\* in use at any time: the edit of the track-specific read is created, read
\* and has its delete issued and settled, accepted or rejected, before the
\* edit of the all-tracks fallback is created; at most two edits are created
\* per call and no read is issued without the id of an edit created before.
C29_OneEditInUse ==
    /\ Cardinality(EditsInUse) <= 1
    /\ \A i \in CallsOf("insert") : \A k \in EditsInUse : k >= i
    /\ Cardinality(CallsOf("insert")) <= 2
    /\ RequestsInOrder
    /\ editId # 0 <=> EditsInUse # {}
    /\ pc \in {"start", "trackInsert", "allInsert", "done"} => EditsInUse = {}

C29_Witness ==
    /\ pc = "done"
    /\ options.track # ""
    /\ Len(calls) = 6
    /\ calls[1].op = "insert" /\ calls[2].op = "get" /\ calls[3].op = "delete"
    /\ calls[3].outcome = "error"
    /\ calls[4].op = "insert" /\ calls[5].op = "list" /\ calls[6].op = "delete"
    /\ calls[4].editId # calls[1].editId
    /\ EditsLeftOpen # {}

(***************************************************************************)
(* Properties of generateAndWriteVersion                                   *)
(***************************************************************************)
BaseAssembled == base.version # <<>> /\ base.appReleaseVersion # <<>>

FileWritten == \E i \in 1..Len(fsCalls) : fsCalls[i].op = "writeFile"

\* C30: generateAndWriteVersion runs base version, Android counter, iOS
\* counter and file write in this order: no counter starts before the base
\* version is assembled, no iOS request is made unless the Android counter,
\* when requested, has returned its version code, no directory is created
\* and no file written when any of the three failed or no output path was
\* given, and the directory is created before the file is written.
C30_StepsInOrder ==
    /\ pc # "idle" => BaseAssembled
    /\ iosPc # "idle" =>
          /\ BaseAssembled
          /\ AndroidRequested =>
                pc = "done" /\ result.kind = "value" /\ androidVersionCode = <<result.value>>
    /\ iosCalls # <<>> => iosPc # "idle"
    /\ (pkgPc = "done" /\ (~BaseAssembled \/ (AndroidRequested /\ androidVersionCode = <<>>)))
          => /\ packageVersion.kind = "error"
             /\ iosPc = "idle" /\ iosCalls = <<>>
    /\ written.kind = "pending" => fsCalls = <<>>
    /\ packageVersion.kind # "value" => fsCalls = <<>>
    /\ outputFilePath = <<>> => fsCalls = <<>>
    /\ (written.kind # "pending" /\ packageVersion.kind = "error") => written = packageVersion
    /\ fsCalls # <<>> =>
          /\ fsCalls[1].op = "mkdirSync"
          /\ Len(fsCalls) <= 2
          /\ Len(fsCalls) = 2 => fsCalls[2].op = "writeFile"
    /\ written.kind = "value" =>
          /\ written = packageVersion
          /\ outputFilePath # <<>> => Len(fsCalls) = 2 /\ FileWritten

C30_Witness ==
    /\ written.kind = "value"
    /\ AndroidRequested /\ IosRequested
    /\ calls # <<>> /\ iosCalls # <<>>
    /\ outputFilePath = <<"o", "u", "t", "/", "v", ".", "j", "s", "o", "n">>
    /\ fsCalls = <<[op |-> "mkdirSync", path |-> <<"/", "r", "e", "p", "o", "/", "o", "u", "t">>],
                   [op |-> "writeFile",
                    path |-> <<"/", "r", "e", "p", "o", "/", "o", "u", "t", "/", "v", ".", "j", "s", "o", "n">>]>>

(***************************************************************************)
(* base64.ts: isBase64 and parseJSONValue                                  *)
(***************************************************************************)
\* the return statements of isBase64 after the check for direct JSON
Base64Evaluation == {"shape", "emptyDecode", "decodedJson", "decoded"}

\* s starts and ends with a double quote
Quoted(s) == s # <<>> /\ Head(s) = "\"" /\ s[Len(s)] = "\""

\* JSON.parse(s) returns a value of one of the types
ParsesTo(s, types) == JSONParse(s).ok /\ JSONParse(s).value.type \in types

\* isBase64 has returned
IsBase64Called == isBase64Result # <<>>

\* what the base64 text in the candidate decodes to
DecodedCandidate == Base64Decode(removeWhitespace(candidate))

\* C24: with expectJson true, isBase64 returns false, at the check for direct
\* JSON, for every string that parses directly as a JSON object or array; a
\* string that parses to a primitive or does not parse is not rejected there
\* and leaves isBase64 by one of the returns of the base64 evaluation.
C24_DirectJsonIsNotBase64 ==
    (IsBase64Called /\ jsonExpected) =>
        /\ ParsesTo(candidate, {"object", "array"})
               => isBase64Result[1] = Returns(FALSE, "directJson")
        /\ (candidate # <<>> /\ ~Quoted(candidate) /\ ~ParsesTo(candidate, {"object", "array"}))
               => isBase64Result[1].at \in Base64Evaluation

\* an object with members, written with whitespace around it, was rejected
\* as direct JSON
C24_Witness ==
    /\ IsBase64Called /\ jsonExpected
    /\ ParsesTo(candidate, {"object"})
    /\ JSONParse(candidate).value.items # <<>>
    /\ Head(candidate) = " "
    /\ isBase64Result[1] = Returns(FALSE, "directJson")

\* C25: with expectJson true, isBase64 returns true only if the decoded text
\* parses as JSON to an object (not to an array, null or a primitive); with
\* expectJson false it returns true exactly for a candidate that passes the
\* shape check and decodes to non-empty text.
C25_EncodedMeansObject ==
    /\ (IsBase64Called /\ jsonExpected /\ isBase64Result[1].returned)
           => ParsesTo(DecodedCandidate, {"object"})
    /\ (IsBase64Called /\ ~jsonExpected /\ ~Quoted(candidate))
           => isBase64Result[1].returned
                  = (base64Regex(removeWhitespace(candidate)) /\ DecodedCandidate # <<>>)

\* C26: for every JSON object O, parseJSONValue returns a value equal to O
\* for the base64 text of JSON.stringify(O), also with whitespace or line
\* breaks inserted into it or quotes around it, and for JSON.stringify(O)
\* itself.
C26_RoundTrip ==
    \A O \in JsonObjects :
        (/\ parsedValue.kind # "pending"
         /\ candidate \in EncodedForms(JSONStringify(O)) \cup DirectForms(JSONStringify(O)))
            => parsedValue = ParsedValue(O)

\* an object with members came back from base64 text broken into lines
C26_Witness ==
    \E O \in JsonObjects :
        /\ Len(O.items) > 1
        /\ candidate = InsertEvery(Base64Encode(JSONStringify(O)), MaxChunk, "\n")
        /\ parsedValue = ParsedValue(O)

\* C27: parseJSONValue either returns a parsed JSON object, for the text of a
\* JSON object or the base64 text of one, or fails; it returns nothing for
\* the text of a JSON primitive such as true or 123.
C27_ObjectOrError ==
    parsedValue.kind = "value" =>
        /\ parsedValue.value[1].type = "object"
        /\ ParsesTo(candidate, {"object"}) \/ ParsesTo(DecodedCandidate, {"object"})

====
